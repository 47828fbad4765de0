------------------------------ MODULE MCRateLimiter ------------------------------
(* Two checks of one caller: its bucket holds one token, the tenant's two, and a key    *)
(* can expire before time runs out.                                                     *)
EXTENDS RateLimiter

CONSTANTS c1, c2, u1

MCUserLimit == [capacity |-> 1, refillTokens |-> 2, refillIntervalMs |-> 1]

MCTenantLimit == [capacity |-> 1, refillTokens |-> 1, refillIntervalMs |-> 3]
===============================================================================
