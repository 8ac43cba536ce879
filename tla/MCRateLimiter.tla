--------------------------- MODULE MCRateLimiter ---------------------------
(***************************************************************************)
(* RateLimiter with addresses of two bits grouped by the first of them: two *)
(* clients of one prefix, one of another, and one of the other family.      *)
(***************************************************************************)
EXTENDS RateLimiter

V4(digits) == [family |-> "v4", digits |-> digits]
V6(digits) == [family |-> "v6", digits |-> digits]

BitsIp   == {V4(<<0, 0>>), V4(<<0, 1>>), V4(<<1, 0>>), V6(<<0, 0, 1, 0>>)}
=============================================================================
