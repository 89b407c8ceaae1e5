SPECIFICATION Spec
CONSTANTS
    Authorizations = 5
    Redirects = 1
    MaxSends = 3
    MaxStops = 2
INVARIANT SslWhenUsed
CHECK_DEADLOCK FALSE
