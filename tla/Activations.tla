---------------------------- MODULE Activations ----------------------------
(***************************************************************************)
(* What running compiled SML promises, whatever executes it: a chain of    *)
(* activations, each in one code object, calling, tail-calling, returning, *)
(* and handling exceptions.  Nothing here knows of a value stack, of side  *)
(* stacks, of a register for the handler, of native code or of a           *)
(* collection; module Machine, which does, is shown to implement it.       *)
(*                                                                         *)
(* An activation is the code it runs, where it is in it, how many operand  *)
(* words it holds, and its handlers, innermost last, each with the place   *)
(* to resume at and the operands to resume with.                           *)
(***************************************************************************)
EXTENDS Integers, Sequences, SequencesExt

CONSTANTS Codes,        \* code objects
          Arity,        \* how many arguments each of them takes
          Packets,      \* exception packets
          HardErrors,   \* errors no handler catches
          None

VARIABLES acts,   \* the activations, the running one last
          mode,   \* "running", "raising", or how the program ended
          exn     \* the packet in flight, or the last one caught

vars == <<acts, mode, exn>>

Fresh(c) == [code |-> c, pos |-> 0, temps |-> 0, hs |-> <<>>]
Goes(act, pos, temps, hs) == [code |-> act.code, pos |-> pos, temps |-> temps, hs |-> hs]
Replaced(s, act) == Append(Front(s), act)

Init == /\ \E c \in Codes : acts = <<Fresh(c)>>
        /\ mode = "running"
        /\ exn = None

(***************************************************************************)
(* The steps, as relations between a chain a and the next one b.  Where    *)
(* the running activation goes, and what it holds, in a step of its own    *)
(* is its code's business: those fields are as they are found in b.        *)
(***************************************************************************)

(* Any instruction that stays within its activation.                       *)
Computes(a, b) ==
    /\ Len(b) = Len(a)
    /\ b = Replaced(a, Goes(Last(a), Last(b).pos, Last(b).temps, Last(a).hs))

(* The arguments are the callee's, and so is the word the callee was found *)
(* in, when that was an operand.                                           *)
Calls(a, b) ==
    /\ Len(b) = Len(a) + 1
    /\ Last(b).code \in Codes
    /\ \E n \in {Arity[Last(b).code], Arity[Last(b).code] + 1} :
          /\ Last(a).temps >= n
          /\ b = Append(Replaced(a, Goes(Last(a), b[Len(a)].pos, Last(a).temps - n, Last(a).hs)),
                        Fresh(Last(b).code))

TailCalls(a, b) ==
    /\ Last(a).hs = <<>>
    /\ \E c \in Codes : b = Replaced(a, Fresh(c))

(* One result goes to the caller, which continues where it called.         *)
Returns(a, b) ==
    /\ Last(a).temps = 1
    /\ Last(a).hs = <<>>
    /\ Len(a) > 1
    /\ LET caller == Last(Front(a))
       IN b = Replaced(Front(a), Goes(caller, caller.pos, caller.temps + 1, caller.hs))

(* One operand becomes the handler; the rest is what it resumes with.      *)
SetsHandler(a, b) ==
    /\ Last(a).temps > 0
    /\ Len(b) = Len(a)
    /\ Last(b).hs # <<>>
    /\ LET h == [pos |-> Last(Last(b).hs).pos, temps |-> Last(a).temps - 1]
       IN b = Replaced(a, Goes(Last(a), Last(b).pos, h.temps, Append(Last(a).hs, h)))

DeletesHandler(a, b) ==
    /\ Last(a).hs # <<>>
    /\ Last(a).temps > Last(Last(a).hs).temps
    /\ Len(b) = Len(a)
    /\ b = Replaced(a, Goes(Last(a), Last(b).pos, Last(Last(a).hs).temps + 1,
                            Front(Last(a).hs)))

(* The m-th activation's innermost handler resumes.                        *)
Catches(a, b, m) ==
    /\ a[m].hs # <<>>
    /\ LET h == Last(a[m].hs)
       IN b = Append(SubSeq(a, 1, m - 1), Goes(a[m], h.pos, h.temps, Front(a[m].hs)))

(* While a raise propagates, the operands of the activation it has reached *)
(* are nobody's; when nothing will catch it only the chain itself is left. *)
Propagates(a, b, m, x) ==
    IF x \in HardErrors
    THEN b = [i \in 1 .. m |-> Fresh(a[i].code)]
    ELSE b = Append(SubSeq(a, 1, m - 1), Goes(a[m], a[m].pos, Last(b).temps, a[m].hs))

(* The activations above the m-th are left.  None of them has a handler    *)
(* that would have caught the packet.                                      *)
Unwinds(a, b, x, how) ==
    LET m == Len(b) IN
    /\ m <= Len(a)
    /\ \A i \in m + 1 .. Len(a) : a[i].hs = <<>> \/ x \in HardErrors
    /\ \/ m > 0 /\ x \notin HardErrors /\ how = "running" /\ Catches(a, b, m)
       \/ m > 0 /\ how = "raising" /\ Propagates(a, b, m, x)
       \/ m = 0 /\ how = (IF x \in HardErrors THEN "error" ELSE "uncaught")

----------------------------------------------------------------------------
(* a and b are named by a quantifier so that TLC evaluates each once when   *)
(* they stand for what a refinement computes.                              *)
Run == /\ mode = "running"
       /\ UNCHANGED <<mode, exn>>
       /\ \E a \in {acts}, b \in {acts'} :
             \/ Computes(a, b) \/ Calls(a, b) \/ TailCalls(a, b) \/ Returns(a, b)
             \/ SetsHandler(a, b) \/ DeletesHandler(a, b)

Raise == /\ \/ mode = "running" /\ exn' \in Packets \cup HardErrors
            \/ mode = "raising" /\ exn' = exn
         /\ \E a \in {acts}, b \in {acts'} : Unwinds(a, b, exn', mode')

(* The last result is handed out.                                          *)
Stop == /\ mode = "running"
        /\ mode' = "returned"
        /\ Len(acts) = 1 /\ Last(acts).temps = 1 /\ Last(acts).hs = <<>>
        /\ acts' = <<>> /\ exn' = None

(* PolyFinish, or a kill: the program ends here.                           *)
Finish == /\ mode = "running"
          /\ mode' = "finished"
          /\ acts' = <<>> /\ exn' = None

Next == Run \/ Raise \/ Stop \/ Finish

Spec == Init /\ [][Next]_vars
=============================================================================
