--------------------------- MODULE MCNative2Amiga ---------------------------
(***************************************************************************)
(* Native2Amiga for TLC: messages of two, three and four words, those of   *)
(* uae_ReplyMsg, uae_PutMsg and uae_Signal_with_Func.                      *)
(***************************************************************************)
EXTENDS Native2Amiga, TLC

CONSTANTS reply, put, signal

MessageWords == reply :> 2 @@ put :> 3 @@ signal :> 4
=============================================================================
