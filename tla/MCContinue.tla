----------------------------- MODULE MCContinue -----------------------------
(***************************************************************************)
(* AuthContinue for TLC: the links a user opens, up to three routes deep.   *)
(***************************************************************************)
EXTENDS AuthContinue

AllLinks ==
  { <<"orders">>, <<"continue">>, <<"continue", "orders">>, <<"continue", Refused>>,
    <<"verification">>, <<"verification", "orders">>, <<"verification", "continue", "orders">>,
    <<"continue", "verification", "orders">>, <<"continue", "continue", "orders">>,
    <<"login", "orders">>, <<"continue", "login", "orders">> }
=============================================================================
