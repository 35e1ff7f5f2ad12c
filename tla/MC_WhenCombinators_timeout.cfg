\* with_timeout whose timeout loop and op_wrapper run after the lambda
\* objects holding their captures have died.
CONSTANTS
    Combinators = {"with_timeout"}
    N = 2
    MaxYields = 1
    Timeout = 2
SPECIFICATION Spec
INVARIANT
    NoEarlyTimeout
