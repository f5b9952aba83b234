----------------------------- MODULE MCObjectIds -----------------------------
(* Small instances of ObjectIds for TLC.                                     *)
EXTENDS ObjectIds

Permanent    == {"display"}
AnyObject    == {"display", "plain"}
CallbackOnly == {"callback"}
CallbackOrPlain == {"callback", "plain"}
=============================================================================
