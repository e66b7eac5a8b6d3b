----------------------------- MODULE MCCodeScan -----------------------------
(* The instances of CodeScan for TLC: every function of up to MaxBytes     *)
(* bytes over a small instruction set.                                     *)
EXTENDS CodeScan

Straight == {CONST_0, LOCAL_0, RESET_1, RESET_R_1, RETURN_1, RETURN_2}
Control == {JUMP8, JUMP8_FALSE, JUMP_BACK8, CASE16, JUMP_TAGGED_LOCAL, RAISE_EX}
Calls == {CALL_CLOSURE, CALL_LOCAL_B, CALL_CONST_ADDR8_0, CALL_FAST_RTS0, TAIL_B_B}
MCEmitted == Straight \cup Control \cup Calls
RtsCalls == {CONST_0, RESET_R_1, CALL_LOCAL_B, CALL_FAST_RTS0, RETURN_1}
=============================================================================
