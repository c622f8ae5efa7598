\* config_parse_opts over command lines of every handler class: raising
\* process_thread_count leaves the one mask slot config_init allocated, and
\* two numeric handlers store into another option's field.
CONSTANTS
    Operand = opnd
    NaN = nan
    TooLong = {longStr}
    Strs = {s1}
    opnd = opnd
    nan = nan
    longStr = longStr
    s1 = s1
    Argvs <- MCArgvsAll
SPECIFICATION Spec
INVARIANT OptionsTakeEffect
CHECK_DEADLOCK FALSE
