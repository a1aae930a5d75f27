---------------------------- MODULE MCRateLimiter ---------------------------
(* The three callers of the limiter, with the relations between their       *)
(* limits (5, 5 and 3 requests) and windows (60, 60 and 300 s) kept and the *)
(* numbers scaled down.                                                     *)
EXTENDS RateLimiter, TLC

CallLimit == ("login" :> 3) @@ ("login_totp" :> 3) @@ ("reset" :> 2)
CallWindow == ("login" :> 1) @@ ("login_totp" :> 1) @@ ("reset" :> 3)
=============================================================================
