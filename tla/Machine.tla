------------------------------ MODULE Machine ------------------------------
(***************************************************************************)
(* The bytecode interpreter as a machine for control: the value stack with *)
(* the return addresses and handler blocks that live on it, the code       *)
(* bounds and the two side stacks that shadow it, the handler register,    *)
(* the native regions that run on the same stack and call back into a      *)
(* nested run of the interpreter, and the collections that move the code   *)
(* all of these point into.                                                *)
(*                                                                         *)
(* The stack is a sequence that grows to the right: its length is the      *)
(* code's len - sp, and position h is the code's slot len - h.  Words that *)
(* are data are one value; an address keeps its code object, its place in  *)
(* it, and the collection after which it was written.                      *)
(***************************************************************************)
EXTENDS Integers, Sequences, SequencesExt, FiniteSetsExt

CONSTANTS Codes,      \* code objects that may be called
          Arity,      \* the arguments each of them takes and its RETURN_n drops
          Regions,    \* those with a compiled native root in region_registry
          Image,      \* those in a permanent space, which never move
          Places,     \* places in a code object; 0 is its entry, and
          ReturnPlaces, HandlerPlaces,   \* those after a call and those of handlers
          Packets,    \* exception packets
          Overflow,   \* the packet of the pervasive Overflow
          Nested,     \* what may happen while a region's callee is interpreted:
                      \* "collect", "halt", "exhaust"
          StackLen, MaxGC, None,
          Spare       \* bound: data words on the stack that are no frame's closure

ASSUME MachineConstants ==
    /\ Arity \in [Codes -> Nat] /\ Regions \subseteq Image /\ Image \subseteq Codes
    /\ 0 \in Places /\ ReturnPlaces \cup HandlerPlaces \subseteq Places
    /\ Overflow \in Packets /\ None \notin Packets
    /\ StackLen \in Nat /\ MaxGC \in Nat /\ Spare \in Nat

\* What region_interp_call saves in its Rust frame.
Registered == [pc : [c : Codes, p : Places, at : Nat], seg : [c : Codes, at : Nat],
               depth : Nat, handlerSp : Nat, hdepth : Nat, caller : Nat]

ASSUME NothingSaved == None \notin Registered

HardErrors == {"divzero", "stack", "heap"}

ASSUME PacketsAreNoErrors == Packets \cap HardErrors = {}

VARIABLES stack,      \* [sp, len) of the value stack, the top last
          pc, seg,    \* pc; (code_start, code_end)
          frames,     \* the callers' code bounds
          handlers,   \* handler_frames_depth
          handlerSp,  \* handler_sp, as a height; 0 is "no handler"
          exn,        \* exception_packet
          nest,       \* the Rust frames of do_call hooks around a region, each with
                      \* what region_interp_call saved, None while native code runs
          flight,     \* ExnCtx.exn_packet, or the error the run ends with
          status,
          halt,       \* the finish flag is set
          gc,         \* collections so far
          base        \* ghost: the activations, as the compiler knows them

vars == <<stack, pc, seg, frames, handlers, handlerSp, exn, nest, flight, status, halt, gc, base>>
control == <<frames, handlers, handlerSp, exn, nest, flight, status, halt, gc, base>>
outer == <<nest, flight, status, halt, gc>>

----------------------------------------------------------------------------
(* Words and addresses.                                                    *)
Data == [k |-> "data"]
Zero == [k |-> "zero"]                       \* the retPC of a top-level frame
CodeAddr(a) == [k |-> "pc", pc |-> a]
SavedHandler(h) == [k |-> "hsp", hsp |-> h]

At(c) == IF c \in Image THEN 0 ELSE gc
Addr(c, p) == [c |-> c, p |-> p, at |-> At(c)]
Bounds(c) == [c |-> c, at |-> At(c)]
SegOf(a) == [c |-> a.c, at |-> a.at]
Current(a) == a.c \in Image \/ a.at = gc

Height == Len(stack)
Top == Last(base)
Native == nest # <<>> /\ Last(nest).saved = None
Interpreting == status = "running" /\ ~Native
Stepping == Interpreting /\ ~halt
InRegion == status = "running" /\ Native

(* What the compiler knows of the running activation: the height just      *)
(* above its closure word, its code, and whether native code runs it.      *)
Activation(c, h, n) == [code |-> c, h |-> h, native |-> n]
Owns(n) == Height - Top.h >= n
DataOnTop(n) == Owns(n) /\ \A i \in Height - n + 1 .. Height : stack[i] = Data

----------------------------------------------------------------------------
(* A collection moves the code that is not in a permanent space.  A root   *)
(* is forwarded; a pointer from before an earlier collection is not found  *)
(* in from-space and stays what it is.                                     *)
Forwarded(a) == IF a.c \notin Image /\ a.at = gc THEN [a EXCEPT !.at = gc + 1] ELSE a

ForwardedWord(w) == IF w.k = "pc" THEN CodeAddr(Forwarded(w.pc)) ELSE w

\* Mutant of ForwardedSide: the collector does not visit the side stacks.
SideNotVisited(s) == s

ForwardedSide(s) == [i \in DOMAIN s |-> [s[i] EXCEPT !.at = Forwarded(s[i]).at]]

(* ThreadRoots: the live stack, the code bounds with pc as an offset from  *)
(* their start, the frames, and the handlers' bounds.  What a Rust frame   *)
(* of region_interp_call saved is no root.                                 *)
Collected(s) ==
    /\ gc < MaxGC
    /\ gc' = gc + 1
    /\ stack' = [i \in DOMAIN s |-> ForwardedWord(s[i])]
    /\ seg' = Forwarded(seg)
    /\ pc' = [c |-> seg.c, p |-> pc.p, at |-> Forwarded(seg).at]
    /\ frames' = ForwardedSide(frames)
    /\ handlers' = ForwardedSide(handlers)

InNestedRun == \E i \in DOMAIN nest : nest[i].saved # None
MayCollect == InNestedRun => "collect" \in Nested

(* The check at the top of a step.                                         *)
TopOfStepCollect ==
    /\ Stepping /\ MayCollect
    /\ Collected(stack)
    /\ UNCHANGED <<handlerSp, exn, nest, flight, status, halt, base>>

(* A region's back-edge poll: it publishes its sp and collects.            *)
RegionSafepoint ==
    /\ InRegion /\ MayCollect
    /\ Collected(stack)
    /\ UNCHANGED <<handlerSp, exn, nest, flight, status, halt, base>>

----------------------------------------------------------------------------
(* How a run of the interpreter ends.  The outermost one is quiesced; one  *)
(* that region_interp_call started gives back what its frame saved.        *)
Quiesced == /\ stack' = <<>> /\ frames' = <<>> /\ handlers' = <<>> /\ base' = <<>>
            /\ handlerSp' = 0 /\ exn' = None /\ pc' = None /\ seg' = None
            /\ UNCHANGED <<nest, gc>>

Restored ==
    LET s == Last(nest).saved IN
    /\ pc' = s.pc /\ seg' = s.seg
    /\ frames' = SubSeq(frames, 1, s.depth)
    /\ handlerSp' = s.handlerSp
    /\ handlers' = SubSeq(handlers, 1, s.hdepth)
    /\ nest' = [nest EXCEPT ![Len(nest)].saved = None]
    /\ base' = SubSeq(base, 1, s.caller)
    /\ UNCHANGED gc

(* An interpreter error.  A region's caller sees a sentinel; those it has  *)
(* no sentinel for arrive as Overflow.                                     *)
Fails(kind) ==
    /\ UNCHANGED halt
    /\ IF nest = <<>>
       THEN /\ Quiesced
            /\ status' = "error" /\ flight' = kind
       ELSE /\ Restored
            /\ status' = "raising"
            /\ flight' = IF kind = "heap" THEN Overflow ELSE kind
            /\ UNCHANGED <<stack, exn>>

\* Mutant of HandlersLeft: the entry of a handler that is gone stays.
HandlersKept == handlers

HandlersLeft == Front(handlers)

HandlerFrames == SubSeq(frames, 1, Last(handlers).depth)

(* do_raise_ex goes to the handler register's block, or out of the run     *)
(* when it says there is none.                                             *)
DoRaiseEx(x) ==
    /\ UNCHANGED halt
    /\ IF handlerSp # 0
       THEN /\ stack' = SubSeq(stack, 1, handlerSp - 2)
            /\ handlerSp' = stack[handlerSp - 1].hsp
            /\ pc' = stack[handlerSp].pc
            /\ seg' = [c |-> Last(handlers).c, at |-> Last(handlers).at]
            /\ frames' = HandlerFrames
            /\ handlers' = HandlersLeft
            /\ base' = SubSeq(base, 1, Cardinality({i \in DOMAIN base : base[i].h < handlerSp}))
            /\ exn' = x /\ status' = "running" /\ flight' = None
            /\ UNCHANGED <<nest, gc>>
       ELSE /\ flight' = x
            /\ IF nest = <<>>
               THEN Quiesced /\ status' = "uncaught"
               ELSE Restored /\ status' = "raising" /\ exn' = x /\ UNCHANGED stack

----------------------------------------------------------------------------
Room(n) == /\ Height + n <= StackLen
           /\ n > 0 => Cardinality({i \in DOMAIN stack : stack[i] = Data}) < Len(base) + Spare

(* Instructions that stay in the activation.  n words of data become m.    *)
Shuffled(n, m) == SubSeq(stack, 1, Height - n) \o [i \in 1 .. m |-> Data]
Elsewhere(p) == pc' = [pc EXCEPT !.p = p]

DataStep ==
    /\ Stepping
    /\ \E n \in 0 .. 2, m \in 0 .. 1 :
          /\ DataOnTop(n) /\ Room(m - n)
          /\ stack' = Shuffled(n, m)
    /\ UNCHANGED pc
    /\ UNCHANGED seg /\ UNCHANGED control

(* The conditional and unconditional jumps, within the code bounds.        *)
Jump == /\ Stepping
        /\ \E p \in Places : Elsewhere(p)
        /\ UNCHANGED <<stack, seg>> /\ UNCHANGED control

(* INSTR_LOCAL_n of the return address, the last push of a tail call.      *)
PushReturnAddress ==
    /\ Stepping /\ Height < StackLen
    /\ stack[Height] = Data
    /\ stack' = Append(stack, stack[Top.h - 1])
    /\ UNCHANGED pc
    /\ UNCHANGED seg /\ UNCHANGED control

PushHandler ==
    /\ Stepping /\ Height < StackLen
    /\ stack' = Append(stack, SavedHandler(handlerSp))
    /\ UNCHANGED pc
    /\ UNCHANGED seg /\ UNCHANGED control

(* The entry is an offset from pc, so it is in the running code.           *)
SetHandler ==
    /\ Stepping /\ Height < StackLen
    /\ Owns(1) /\ stack[Height] = SavedHandler(handlerSp)
    /\ \E q \in HandlerPlaces : stack' = Append(stack, CodeAddr([pc EXCEPT !.p = q]))
    /\ UNCHANGED pc
    /\ handlerSp' = Height + 1
    /\ handlers' = Append(handlers, [depth |-> Len(frames), c |-> seg.c, at |-> seg.at])
    /\ UNCHANGED <<seg, frames, exn, outer, base>>

DeleteHandler ==
    /\ Stepping
    /\ handlerSp > Top.h /\ Height > handlerSp
    /\ \A h \in handlerSp + 1 .. Height : stack[h] = Data
    /\ stack' = Append(SubSeq(stack, 1, handlerSp - 2), Data)
    /\ handlerSp' = stack[handlerSp - 1].hsp
    /\ handlers' = HandlersLeft
    /\ UNCHANGED pc
    /\ UNCHANGED <<seg, frames, exn, outer, base>>

RaiseEx == /\ Stepping /\ DataOnTop(1)
           /\ \E x \in Packets \ {Overflow} : DoRaiseEx(x)

(* FIXED_ADD and its like build the packet and push it.                    *)
RaiseOverflow == Stepping /\ DataOnTop(2) /\ DoRaiseEx(Overflow)

DivByZero == Stepping /\ DataOnTop(2) /\ Fails("divzero")
StackOverflows == Stepping /\ Height + 1 >= StackLen /\ Fails("stack")
HeapExhausted == Stepping /\ (InNestedRun => "exhaust" \in Nested) /\ Fails("heap")

----------------------------------------------------------------------------
(* do_call, the closure popped, on the words s.  A code object with a      *)
(* native root runs there, its return address a zero; any other gets an    *)
(* interpreter frame.                                                      *)
DoCall(c, p, s) ==
    /\ Len(s) + 2 <= StackLen
    /\ base' = Append(base, Activation(c, Len(s) + 2, c \in Regions))
    /\ IF c \in Regions
       THEN /\ stack' = s \o <<Zero, Data>>
            /\ nest' = Append(nest, [top |-> Len(s), saved |-> None])
            /\ Elsewhere(p)
            /\ UNCHANGED <<seg, frames, handlers, handlerSp, exn, flight, status, halt, gc>>
       ELSE /\ stack' = s \o <<CodeAddr([pc EXCEPT !.p = p]), Data>>
            /\ frames' = Append(frames, seg)
            /\ seg' = Bounds(c) /\ pc' = Addr(c, 0)
            /\ UNCHANGED <<handlers, handlerSp, exn, outer>>

(* The closure is a constant, a local or a field, or is popped.            *)
Call == /\ Stepping
        /\ \E c \in Codes, p \in ReturnPlaces, n \in 0 .. 1 :
              DataOnTop(Arity[c] + n) /\ DoCall(c, p, Shuffled(n, 0))

(* The arguments, the closure and the return address slide down over the   *)
(* frame they replace; the caller's bounds on the side stack stay.         *)
DoTailCall ==
    /\ Stepping
    /\ \E c \in Codes :
          LET n == Arity[c] + 2
              moved == SubSeq(stack, Height - n + 1, Height)
              floor == Top.h - 2 - Arity[Top.code]
          IN /\ Owns(n) /\ handlerSp < Top.h
             /\ moved[n] = stack[Top.h - 1]
             /\ \A i \in 1 .. n - 1 : moved[i] = Data
             /\ stack' = SubSeq(stack, 1, floor) \o SubSeq(moved, 1, n - 2)
                         \o <<moved[n], moved[n - 1]>>
             /\ seg' = Bounds(c) /\ pc' = Addr(c, 0)
             /\ base' = Append(Front(base), Activation(c, floor + n, FALSE))
    /\ UNCHANGED <<frames, handlers, handlerSp, exn, outer>>

\* Mutant of ReturnDrops: the arguments stay below the result.
ReturnKeepsArguments == 3

(* RETURN_n drops the result, the closure, the return address and n more.  *)
ReturnDrops == 3 + Arity[seg.c]

DoReturn ==
    /\ Stepping
    /\ Height = Top.h + 1 /\ DataOnTop(1)
    /\ LET ret == stack[Height - 2]
           s == Append(SubSeq(stack, 1, Height - ReturnDrops), Data)
       IN IF ret # Zero
          THEN /\ stack' = s
               /\ seg' = Last(frames) /\ frames' = Front(frames)
               /\ pc' = ret.pc
               /\ base' = Front(base)
               /\ UNCHANGED <<handlers, handlerSp, exn, outer>>
          ELSE /\ UNCHANGED halt
               /\ IF nest = <<>>
                  THEN Quiesced /\ status' = "returned" /\ UNCHANGED flight
                  ELSE Restored /\ stack' = s /\ UNCHANGED <<exn, flight, status>>

----------------------------------------------------------------------------
(* rts_call, the stub and its arguments popped.  What the call returned    *)
(* decides what happens; the blocking and the effects of the calls are     *)
(* other modules' subject.                                                 *)
RtsReturns(n) == /\ stack' = Shuffled(n, 1)
                 /\ UNCHANGED seg /\ UNCHANGED control

RtsRaises == \E x \in Packets : DoRaiseEx(x)

(* PolyFullGC collects after its result is pushed.                         *)
RtsCollects(n) == /\ MayCollect
                  /\ Collected(Shuffled(n, 1))
                  /\ UNCHANGED <<handlerSp, exn, nest, flight, status, halt, base>>

(* PolyFinish only leaves its code behind; the next step halts.            *)
RtsFinishes(n) ==
    /\ InNestedRun => "halt" \in Nested
    /\ stack' = Shuffled(n, 1)
    /\ halt' = TRUE
    /\ UNCHANGED <<seg, frames, handlers, handlerSp, exn, nest, flight, status, gc, base>>

(* PolyEndBootstrapMode: the closure it was given is called on unit.       *)
RtsCallsBack(n) ==
    \E c \in Codes, p \in ReturnPlaces : n = 2 /\ Arity[c] = 1 /\ DoCall(c, p, Shuffled(n, 1))

RtsCall == /\ Stepping
           /\ \E n \in 1 .. 2 :
                 /\ DataOnTop(n)
                 /\ \/ (RtsReturns(n) \/ RtsFinishes(n)) /\ UNCHANGED pc
                    \/ RtsCollects(n)
                    \/ RtsRaises
                    \/ RtsCallsBack(n)

(* The check before the fetch: the run returns the code, and the flag is   *)
(* cleared when no other thread has to see it.  The run that a region      *)
(* started hands the code back as its callee's result, if the stack has    *)
(* room for it.                                                            *)
Halt == /\ Interpreting /\ halt
        /\ halt' \in BOOLEAN
        /\ IF nest = <<>>
           THEN Quiesced /\ status' = "finished" /\ UNCHANGED flight
           ELSE /\ Restored /\ UNCHANGED exn
                /\ IF Height < StackLen
                   THEN stack' = Append(stack, Data) /\ UNCHANGED <<flight, status>>
                   ELSE status' = "raising" /\ flight' = "stack" /\ UNCHANGED stack

----------------------------------------------------------------------------
(* Native code, on the same stack.  It keeps its operands there and knows  *)
(* no handlers.                                                            *)
Registers == <<pc, seg, frames, handlers, handlerSp, exn, halt, gc>>

NativeStep ==
    /\ InRegion
    /\ \E n \in 0 .. 2, m \in 0 .. 1 :
          /\ DataOnTop(n) /\ Room(m - n)
          /\ stack' = Shuffled(n, m)
    /\ UNCHANGED <<Registers, nest, flight, status, base>>

(* CALL_CONST_ADDR to another function of the region.                      *)
NativeCall ==
    /\ InRegion /\ Height + 2 <= StackLen
    /\ \E c \in Regions : /\ DataOnTop(Arity[c])
                          /\ base' = Append(base, Activation(c, Height + 2, TRUE))
    /\ stack' = stack \o <<Zero, Data>>
    /\ UNCHANGED <<Registers, nest, flight, status>>

AtRoot == Top.h = Last(nest).top + 2

(* The root's return goes to the hook in do_call, which takes over sp.     *)
NativeReturn ==
    /\ InRegion
    /\ Height = Top.h + 1 /\ DataOnTop(1)
    /\ stack' = Append(SubSeq(stack, 1, Height - 3 - Arity[Top.code]), Data)
    /\ base' = Front(base)
    /\ nest' = IF AtRoot THEN Front(nest) ELSE nest
    /\ UNCHANGED <<Registers, flight, status>>

(* FIXED arithmetic, a zero divisor, the prologue's stack check.           *)
NativeRaise ==
    /\ InRegion
    /\ flight' \in {Overflow, "divzero", "stack"}
    /\ status' = "raising"
    /\ UNCHANGED <<Registers, stack, nest, base>>

(* Each native caller passes a raise on; the hook in do_call cuts the      *)
(* stack back to the arguments it was called with.                         *)
NativePropagate ==
    /\ status = "raising"
    /\ base' = Front(base)
    /\ IF AtRoot
       THEN /\ stack' = SubSeq(stack, 1, Last(nest).top)
            /\ nest' = Front(nest) /\ status' = "escaped"
       ELSE UNCHANGED <<stack, nest, status>>
    /\ UNCHANGED <<Registers, flight>>

(* The hook maps the sentinel: a hard error fails the run, anything else   *)
(* is raised by the interpreter's own machinery.                           *)
HookRaises == /\ status = "escaped"
              /\ IF flight \in HardErrors THEN Fails(flight) ELSE DoRaiseEx(flight)

IsolatedHandler == 0

(* region_interp_call: the interpreter's registers are saved in a Rust     *)
(* frame, the handler is hidden from the callee, and the callee, native or *)
(* not, is interpreted by a nested run that ends at its zero return        *)
(* address.                                                                *)
NativeCallsBack ==
    /\ InRegion /\ Height + 2 <= StackLen
    /\ \E c \in Codes :
          /\ DataOnTop(Arity[c])
          /\ base' = Append(base, Activation(c, Height + 2, FALSE))
          /\ seg' = Bounds(c) /\ pc' = Addr(c, 0)
    /\ nest' = [nest EXCEPT ![Len(nest)].saved =
                   [pc |-> pc, seg |-> seg, depth |-> Len(frames), handlerSp |-> handlerSp,
                    hdepth |-> Len(handlers), caller |-> Len(base)]]
    /\ handlerSp' = IsolatedHandler
    /\ stack' = stack \o <<Zero, Data>>
    /\ frames' = Append(frames, seg)
    /\ UNCHANGED <<handlers, exn, flight, status, halt, gc>>

(* No room for the callee's frame: the sentinel, before anything was saved *)
(* into or restored from the registers but the handler.                    *)
NativeCallOverflows ==
    /\ InRegion /\ Height + 2 > StackLen
    /\ handlerSp' = IsolatedHandler
    /\ flight' = "stack" /\ status' = "raising"
    /\ UNCHANGED <<stack, pc, seg, frames, handlers, exn, nest, halt, gc, base>>

----------------------------------------------------------------------------
Init == /\ \E c \in Codes : /\ pc = [c |-> c, p |-> 0, at |-> 0]
                            /\ seg = [c |-> c, at |-> 0]
                            /\ base = <<Activation(c, 2 + Arity[c], FALSE)>>
                            /\ stack = [i \in 1 .. Arity[c] |-> Data] \o <<Zero, Data>>
        /\ frames = <<>> /\ handlers = <<>> /\ handlerSp = 0
        /\ exn = None /\ nest = <<>> /\ flight = None
        /\ status = "running" /\ halt = FALSE /\ gc = 0

Next == \/ TopOfStepCollect \/ Halt
        \/ DataStep \/ Jump \/ PushReturnAddress
        \/ PushHandler \/ SetHandler \/ DeleteHandler
        \/ RaiseEx \/ RaiseOverflow
        \/ DivByZero \/ StackOverflows \/ HeapExhausted
        \/ Call \/ DoTailCall \/ DoReturn \/ RtsCall
        \/ NativeStep \/ RegionSafepoint
        \/ NativeCall \/ NativeReturn \/ NativeCallsBack \/ NativeCallOverflows
        \/ NativeRaise \/ NativePropagate \/ HookRaises

Spec == Init /\ [][Next]_vars

----------------------------------------------------------------------------
(* The activations a reader of the machine's own state would see.          *)

(* The handler blocks: each run's chain, from its register down.  A block  *)
(* saved the register as it was when the block was made, so a lower one.   *)
Saved(h) == IF stack[h - 1].hsp \in 0 .. h - 1 THEN stack[h - 1].hsp ELSE 0
Chain[h \in Nat] == IF h = 0 THEN {} ELSE {h} \cup Chain[Saved(h)]

Blocks == Chain[handlerSp]
          \cup UNION {Chain[nest[j].saved.handlerSp] : j \in {i \in DOMAIN nest : nest[i].saved # None}}

Rank(i) == Cardinality({j \in 1 .. i : ~base[j].native})
Interpreted == Rank(Len(base))
HookOf(i) == CHOOSE j \in DOMAIN nest : base[i + 1].h = nest[j].top + 2

(* The bounds of an activation are seg for the last interpreted one, and   *)
(* on the frames stack for the others.                                     *)
SegAt(i) == IF Rank(i) = Interpreted THEN seg ELSE frames[Rank(i)]

(* Where it resumes: pc, its callee's return address, or, when its callee  *)
(* is native, the pc the interpreter has or region_interp_call saved.      *)
PcAt(i) ==
    IF i = Len(base) THEN pc
    ELSE IF ~base[i + 1].native THEN stack[base[i + 1].h - 1].pc
    ELSE IF nest[HookOf(i)].saved = None THEN pc ELSE nest[HookOf(i)].saved.pc

Stale == -1
Ceiling(i) == IF i = Len(base) THEN Height
              ELSE base[i + 1].h - 2 - Arity[base[i + 1].code]
BlocksIn(blocks, i) == {h \in blocks : base[i].h < h /\ h <= Ceiling(i)}
Nth(S, n) == CHOOSE x \in S : Cardinality({y \in S : y < x}) = n - 1

ActivationAt(blocks, i) ==
    LET own == BlocksIn(blocks, i)
        PlaceOf(a) == IF Current(a) THEN a.p ELSE Stale
        Temps(h) == h - base[i].h - 2 * Cardinality({g \in own : g <= h})
    IN IF base[i].native
       THEN [code |-> base[i].code, pos |-> 0, temps |-> Temps(Ceiling(i)), hs |-> <<>>]
       ELSE [code |-> IF Current(SegAt(i)) /\ SegAt(i).c = PcAt(i).c THEN SegAt(i).c ELSE Stale,
             pos |-> PlaceOf(PcAt(i)),
             temps |-> Temps(Ceiling(i)),
             hs |-> [n \in 1 .. Cardinality(own) |->
                       [pos |-> PlaceOf(stack[Nth(own, n)].pc), temps |-> Temps(Nth(own, n))]]]

(* A run that a hard error ends is only its chain of codes.                *)
Doomed == status # "running" /\ flight \in HardErrors

Activated ==
    LET blocks == Blocks IN
    [i \in DOMAIN base |->
       IF Doomed
       THEN [code |-> ActivationAt(blocks, i).code, pos |-> 0, temps |-> 0, hs |-> <<>>]
       ELSE ActivationAt(blocks, i)]

A == INSTANCE Activations WITH
        acts <- Activated,
        mode <- IF status = "escaped" THEN "raising" ELSE status,
        exn <- IF status \in {"raising", "escaped", "uncaught", "error"} THEN flight ELSE exn

(* Whatever the interpreter, the regions and the collector do between      *)
(* them is a step of plain activations: a call resumes where it was made,  *)
(* with one operand for what it took; a raise reaches the dynamically     *)
(* innermost handler, with its own packet, through native frames or not;   *)
(* no address that will be resumed at is left behind by a collection       *)
(* (do_call, do_return, do_tail_call, do_raise_ex, region_interp_call,     *)
(* ThreadRoots).                                                           *)
ImplementsActivations == A!Spec

(* The two side stacks shadow what is on the value stack: one entry of     *)
(* handler_frames_depth for each handler block, in the same order, with    *)
(* the bounds of the code its entry is in and the depth of the activation  *)
(* it belongs to; one entry of frames for each interpreted caller          *)
(* (SET_HANDLER, DELETE_HANDLER, do_raise_ex, region_interp_call).         *)
SideStacksShadow ==
    LET blocks == Blocks IN
    status = "running" =>
    /\ Len(handlers) = Cardinality(blocks)
    /\ \A n \in DOMAIN handlers :
          LET h == Nth(blocks, n) IN
          /\ SegOf(stack[h].pc) = [c |-> handlers[n].c, at |-> handlers[n].at]
          /\ \E i \in DOMAIN base : /\ h \in BlocksIn(blocks, i)
                                    /\ Rank(i) = handlers[n].depth + 1
    /\ Len(frames) = Interpreted - 1

TypeOK ==
    /\ Height <= StackLen
    /\ \A i \in DOMAIN stack : stack[i].k \in {"data", "zero", "pc", "hsp"}
    /\ handlerSp \in 0 .. Height
    /\ handlerSp # 0 => stack[handlerSp].k = "pc" /\ stack[handlerSp - 1].k = "hsp"
    /\ exn \in Packets \cup {None} /\ flight \in Packets \cup HardErrors \cup {None}
    /\ status \in {"running", "raising", "escaped", "returned", "uncaught", "error", "finished"}
    /\ halt \in BOOLEAN /\ gc \in 0 .. MaxGC

(* Whatever will be resumed at or run in has moved with its code: pc, the  *)
(* return addresses and the handler entries among the operands, the bounds *)
(* on both side stacks; also those that region_interp_call restores when   *)
(* the region goes on "exactly as it was" (ThreadRoots,                    *)
(* region_interp_call).                                                    *)
NoStaleCode ==
    status = "running" =>
    /\ Current(pc) /\ Current(seg)
    /\ \A i \in DOMAIN stack : stack[i].k = "pc" => Current(stack[i].pc)
    /\ \A i \in DOMAIN frames : Current(frames[i])
    /\ \A i \in DOMAIN handlers : Current(handlers[i])

(* Once PolyFinish was called, no more bytecode runs: the program halts at *)
(* the next step of the interpreter (step_one's check of the flag).        *)
FinishHalts == [][halt /\ Interpreting => status' = "finished"]_vars
=============================================================================
