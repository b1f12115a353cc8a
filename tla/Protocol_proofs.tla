--------------------------- MODULE Protocol_proofs ---------------------------
(***************************************************************************)
(* The two abstractions that the modules of the lifecycles lean on.         *)
(*                                                                         *)
(* Escrow, which each of them implements, is backed in every state, for any *)
(* finite set of keys.                                                      *)
(*                                                                         *)
(* The call stack lets one of their handlers run at a time, for every depth *)
(* and every set of tokens and markets.  A call that reverts restores the   *)
(* storage it found, so it is not enough that the storage fits the stack:   *)
(* every copy a frame keeps must fit the frames below it.                   *)
(***************************************************************************)
EXTENDS HandlerCalls, Escrow, Ledger_proofs, SequenceTheorems

(* Only an open key has a claim: what is closed owes nothing any more.      *)
THEOREM EscrowType == EscrowSpec => [](EscrowTypeOK /\ OnlyOpenClaims)
<1> DEFINE Inv == EscrowTypeOK /\ OnlyOpenClaims
<1> USE DEF EscrowTypeOK, OnlyOpenClaims, NoClaim
<1>1. EscrowInit => Inv
  BY DEF EscrowInit
<1>2. Inv /\ [EscrowNext]_escrowVars => Inv'
  <2> SUFFICES ASSUME Inv, [EscrowNext]_escrowVars PROVE Inv'
    OBVIOUS
  <2>1. ASSUME NEW k \in Keys, Open(k) PROVE Inv'
    BY <2>1 DEF Open, Book
  <2>2. ASSUME NEW k \in Keys, Adjust(k) PROVE Inv'
    BY <2>2 DEF Adjust, Book
  <2>3. ASSUME NEW k \in Keys, Close(k) PROVE Inv'
    BY <2>3 DEF Close, Book
  <2>4. CASE UNCHANGED escrowVars
    BY <2>4 DEF escrowVars
  <2> QED
    BY <2>1, <2>2, <2>3, <2>4 DEF EscrowNext
<1> QED
  BY <1>1, <1>2, PTL DEF EscrowSpec

(* One step keeps the recorded balances above the claims: the step changes  *)
(* one summand, and the balance moves at least as far.                      *)
LEMMA BookBacked ==
  ASSUME IsFiniteSet(Keys), EscrowTypeOK, Backed, NEW k \in Keys, Book(k)
  PROVE  Backed'
<1> SUFFICES ASSUME NEW t \in Tokens PROVE Total(Row(t)') <= held'[t]
  BY DEF Backed
<1> USE DEF EscrowTypeOK
<1>1. Row(t) \in [Keys -> Nat] /\ Row(t)' \in [Keys -> Nat]
  BY DEF Row, Book
<1>2. \A j \in Keys \ {k} : Row(t)'[j] = Row(t)[j]
  BY DEF Row, Book
<1>3. held'[t] - held[t] >= Row(t)'[k] - Row(t)[k]
  BY DEF Row, Book
<1>4. Total(Row(t)) <= held[t] /\ held[t] \in Nat /\ held'[t] \in Nat
  BY DEF Backed, Book
<1> QED
  BY <1>1, <1>2, <1>3, <1>4, TotalCovered

(* The recorded balances cover all claims together in every reachable state *)
(* of the escrow, whatever the number of keys and tokens.                   *)
THEOREM EscrowBacked == ASSUME IsFiniteSet(Keys) PROVE EscrowSpec => []Backed
<1>1. EscrowInit => Backed
  <2> SUFFICES ASSUME EscrowInit, NEW t \in Tokens PROVE Total(Row(t)) <= held[t]
    BY DEF Backed
  <2>1. Row(t) \in [Keys -> Nat] /\ \A k \in Keys : Row(t)[k] = 0
    BY DEF EscrowInit, Row, NoClaim
  <2> QED
    BY <2>1, TotalZero DEF EscrowInit
<1>2. EscrowTypeOK /\ Backed /\ [EscrowNext]_escrowVars => Backed'
  <2>1. ASSUME EscrowTypeOK, Backed, NEW k \in Keys, Book(k) PROVE Backed'
    BY <2>1, BookBacked
  <2>2. ASSUME Backed, UNCHANGED escrowVars PROVE Backed'
    BY <2>2 DEF Backed, Row, escrowVars
  <2> QED
    BY <2>1, <2>2 DEF EscrowNext, Open, Adjust, Close
<1> QED
  BY <1>1, <1>2, EscrowType, PTL DEF EscrowSpec

-----------------------------------------------------------------------------
(* The calls that hold the router's guard, and those that bring prices.     *)
Routed == {"request", "simulate", "simulated", "claim"}
Priced == Guarded \ {"request"}

(* Storage s is what the frames 1..i of a stack leave: a guard is held      *)
(* exactly while a frame holds it, each price was brought by a frame that   *)
(* brings prices, and a flag needs a swap.                                  *)
GuardFits(s, calls, i) == s.guard <=> \E j \in 1..i : calls[j].call \in Guarded
RouterFits(s, calls, i) == s.routerGuard <=> \E j \in 1..i : calls[j].call \in Routed
PricesFit(s, calls, i) ==
  \A t \in PriceTokens : s.primaryPrices[t] # 0 =>
    s.primaryPrices[t] \in 1..i /\ calls[s.primaryPrices[t]].call \in Priced
SetFits(s) == s.tokensWithPrices = {t \in PriceTokens : s.primaryPrices[t] # 0}
FlagsFit(s, calls, i) == (\A j \in 1..i : calls[j].call # "swap") => s.flags = {}

Fits(s, calls, i) ==
  /\ s \in Storage /\ SetFits(s)
  /\ GuardFits(s, calls, i) /\ RouterFits(s, calls, i)
  /\ PricesFit(s, calls, i) /\ FlagsFit(s, calls, i)

OneRouter ==
  \A i, j \in DOMAIN stack :
    stack[i].call \in Routed /\ stack[j].call \in Routed => i = j

(* An attempt runs right inside the execution or the simulation it is of.   *)
AttemptsInside ==
  \A i \in DOMAIN stack : stack[i].call = "attempt" =>
    i > 1 /\ stack[i-1].call \in {"execute", "simulate"}

StackOK == stack \in Seq(Frame) /\ Len(stack) <= MaxDepth
SavedFit == \A i \in DOMAIN stack : Fits(stack[i].saved, stack, i-1)

CallsInv ==
  /\ StackOK
  /\ Fits(store, stack, Len(stack))
  /\ SavedFit
  /\ OneHandlerAtATime /\ OneRouter /\ AttemptsInside

-----------------------------------------------------------------------------
(* What Fits looks at in a frame.                                           *)
SameKind(f, g) ==
  /\ f.call \in Guarded <=> g.call \in Guarded
  /\ f.call \in Routed <=> g.call \in Routed
  /\ f.call = "swap" <=> g.call = "swap"

(* Fits only depends on the kinds of the first i frames.                    *)
LEMMA FitsSame ==
  ASSUME NEW s, NEW a, NEW b, NEW i \in Int, Fits(s, a, i),
         \A j \in 1..i : SameKind(a[j], b[j]),
         \A j \in 1..i : a[j].call \in Priced <=> b[j].call \in Priced
  PROVE  Fits(s, b, i)
<1>1. GuardFits(s, b, i) BY DEF Fits, GuardFits, SameKind
<1>2. RouterFits(s, b, i) BY DEF Fits, RouterFits, SameKind
<1>3. PricesFit(s, b, i) BY DEF Fits, PricesFit
<1>4. FlagsFit(s, b, i) BY DEF Fits, FlagsFit, SameKind
<1> QED BY <1>1, <1>2, <1>3, <1>4 DEF Fits

(* A frame that holds nothing may be laid on top, or taken off.             *)
LEMMA FitsIdle ==
  ASSUME NEW s, NEW a, NEW i \in Nat,
         a[i+1].call \notin Guarded, a[i+1].call \notin Routed, a[i+1].call # "swap"
  PROVE  Fits(s, a, i+1) <=> Fits(s, a, i)
<1>0. 1..(i+1) = 1..i \cup {i+1} /\ i+1 \notin 1..i OBVIOUS
<1>1. GuardFits(s, a, i+1) <=> GuardFits(s, a, i) BY <1>0 DEF GuardFits
<1>2. RouterFits(s, a, i+1) <=> RouterFits(s, a, i) BY <1>0 DEF RouterFits
<1>3. PricesFit(s, a, i+1) <=> PricesFit(s, a, i) BY <1>0 DEF PricesFit, Priced
<1>4. FlagsFit(s, a, i+1) <=> FlagsFit(s, a, i) BY <1>0 DEF FlagsFit
<1> QED BY <1>1, <1>2, <1>3, <1>4 DEF Fits

(* The stack after a call, frame by frame.                                  *)
LEMMA PushShape ==
  ASSUME StackOK, store \in Storage, NEW call \in Calls, Push(call)
  PROVE  /\ stack' \in Seq(Frame)
         /\ Len(stack') = Len(stack) + 1 /\ Len(stack) \in Nat
         /\ DOMAIN stack' = 1..(Len(stack) + 1) /\ DOMAIN stack = 1..Len(stack)
         /\ \A i \in 1..Len(stack) : stack'[i] = stack[i]
         /\ stack'[Len(stack) + 1].call = call
         /\ stack'[Len(stack) + 1].saved = store
         /\ Len(stack') <= MaxDepth
<1> DEFINE f == [call |-> call, saved |-> store]
<1>1. f \in Frame BY DEF Frame
<1>2. stack \in Seq(Frame) /\ Len(stack) < MaxDepth /\ stack' = Append(stack, f) BY DEF StackOK, Push
<1>3. f.call = call /\ f.saved = store OBVIOUS
<1> HIDE DEF f
<1>4. /\ stack' \in Seq(Frame) /\ Len(stack') = Len(stack) + 1
      /\ \A i \in 1..Len(stack) : stack'[i] = stack[i]
      /\ stack'[Len(stack) + 1] = f
  BY <1>1, <1>2, AppendProperties
<1>5. Len(stack) \in Nat /\ DOMAIN stack = 1..Len(stack) /\ DOMAIN stack' = 1..Len(stack')
  BY <1>2, <1>4, LenProperties
<1> QED BY <1>2, <1>3, <1>4, <1>5, CallsAssumption

(* The stack after a return, frame by frame.                                *)
LEMMA PopShape ==
  ASSUME StackOK, stack # <<>>
  PROVE  /\ Len(stack) \in Nat \ {0} /\ DOMAIN stack = 1..Len(stack)
         /\ Front(stack) \in Seq(Frame) /\ Len(Front(stack)) = Len(stack) - 1
         /\ DOMAIN Front(stack) = 1..(Len(stack) - 1)
         /\ \A i \in 1..(Len(stack) - 1) : Front(stack)[i] = stack[i]
         /\ Top = stack[Len(stack)]
<1>1. Len(stack) \in Nat \ {0} /\ DOMAIN stack = 1..Len(stack) BY EmptySeq, LenProperties DEF StackOK
<1>2. \A i \in 1..(Len(stack) - 1) : stack[i] \in Frame BY <1>1, ElementOfSeq DEF StackOK
<1> DEFINE n == Len(stack) - 1
<1>3. n \in Nat /\ n \in Int /\ 1 \in Int /\ \A i \in 1..n : stack[i] \in Frame BY <1>1, <1>2
<1>4. /\ Front(stack) \in Seq(Frame) /\ Len(Front(stack)) = n
      /\ \A i \in 1..n : Front(stack)[i] = stack[i]
  <2>1. Front(stack) = SubSeq(stack, 1, n) BY DEF Front
  <2> HIDE DEF n
  <2>2. /\ SubSeq(stack, 1, n) \in Seq(Frame)
        /\ Len(SubSeq(stack, 1, n)) = IF 1 <= n THEN n - 1 + 1 ELSE 0
        /\ \A i \in 1..(n - 1 + 1) : SubSeq(stack, 1, n)[i] = stack[1 + i - 1]
    BY <1>3, SubSeqProperties
  <2>3. (IF 1 <= n THEN n - 1 + 1 ELSE 0) = n /\ n - 1 + 1 = n BY <1>3
  <2>4. \A i \in 1..n : 1 + i - 1 = i BY <1>3
  <2> QED BY <2>1, <2>2, <2>3, <2>4
<1>5. DOMAIN Front(stack) = 1..n BY <1>4, LenProperties
<1> QED BY <1>1, <1>4, <1>5 DEF Top, Last

-----------------------------------------------------------------------------
(* A call keeps the invariant if it takes no guard that is held, starts an  *)
(* attempt only inside an execution or a simulation, and leaves a storage   *)
(* that fits.                                                               *)
LEMMA Pushed ==
  ASSUME CallsInv, NEW call \in Calls, Push(call),
         call \in Guarded => ~store.guard,
         call \in Routed => ~store.routerGuard,
         call = "attempt" => Running({"execute", "simulate"}),
         Fits(store', stack', Len(stack) + 1)
  PROVE  CallsInv'
<1> DEFINE n == Len(stack)
<1>0. StackOK /\ Fits(store, stack, n) /\ SavedFit /\ store \in Storage BY DEF CallsInv, Fits
<1>1. /\ stack' \in Seq(Frame)
      /\ Len(stack') = n + 1 /\ n \in Nat
      /\ DOMAIN stack' = 1..(n + 1) /\ DOMAIN stack = 1..n
      /\ \A i \in 1..n : stack'[i] = stack[i]
      /\ stack'[n + 1].call = call
      /\ stack'[n + 1].saved = store
      /\ Len(stack') <= MaxDepth
  BY <1>0, PushShape
<1>2. StackOK' BY <1>1 DEF StackOK
<1>3. Fits(store', stack', Len(stack')) BY <1>1
<1> HIDE DEF n
<1>4. ASSUME NEW s, NEW i \in 0..n, Fits(s, stack, i) PROVE Fits(s, stack', i)
  <2>1. i \in Int /\ \A j \in 1..i : stack'[j] = stack[j] BY <1>1
  <2> QED BY <1>4, <2>1, FitsSame DEF SameKind
<1>5. SavedFit'
  <2> SUFFICES ASSUME NEW i \in 1..(n + 1) PROVE Fits(stack'[i].saved, stack', i-1)
    BY <1>1 DEF SavedFit
  <2>1. CASE i \in 1..n
    <3>1. Fits(stack[i].saved, stack, i-1) BY <1>0, <1>1, <2>1 DEF SavedFit
    <3>2. i-1 \in 0..n BY <1>1, <2>1
    <3>3. Fits(stack[i].saved, stack', i-1) BY <1>4, <3>1, <3>2
    <3> QED BY <1>1, <2>1, <3>3
  <2>2. CASE i = n + 1
    <3>1. n \in 0..n /\ (n + 1) - 1 = n BY <1>1
    <3>2. Fits(store, stack', n) BY <1>0, <1>4, <3>1
    <3> QED BY <1>1, <2>2, <3>1, <3>2
  <2> QED BY <1>1, <2>1, <2>2
<1>6. call \in Guarded => \A j \in 1..n : stack[j].call \notin Guarded
  BY <1>0 DEF Fits, GuardFits
<1>7. call \in Routed => \A j \in 1..n : stack[j].call \notin Routed
  BY <1>0 DEF Fits, RouterFits
<1>8. \A i \in 1..(n + 1) : i \in 1..n \/ i = n + 1 BY <1>1
<1>9. OneHandlerAtATime'
  <2>1. \A i, j \in 1..n : stack[i].call \in Guarded /\ stack[j].call \in Guarded => i = j
    BY <1>1 DEF CallsInv, OneHandlerAtATime
  <2>2. \A i, j \in 1..(n + 1) : stack'[i].call \in Guarded /\ stack'[j].call \in Guarded => i = j
    BY <1>1, <1>6, <1>8, <2>1
  <2> QED BY <1>1, <2>2 DEF OneHandlerAtATime
<1>10. OneRouter'
  <2>1. \A i, j \in 1..n : stack[i].call \in Routed /\ stack[j].call \in Routed => i = j
    BY <1>1 DEF CallsInv, OneRouter
  <2>2. \A i, j \in 1..(n + 1) : stack'[i].call \in Routed /\ stack'[j].call \in Routed => i = j
    BY <1>1, <1>7, <1>8, <2>1
  <2> QED BY <1>1, <2>2 DEF OneRouter
<1>11. AttemptsInside'
  <2> SUFFICES ASSUME NEW i \in 1..(n + 1), stack'[i].call = "attempt"
               PROVE  i > 1 /\ stack'[i-1].call \in {"execute", "simulate"}
    BY <1>1 DEF AttemptsInside
  <2>1. CASE i \in 1..n
    <3>1. i > 1 /\ stack[i-1].call \in {"execute", "simulate"}
      BY <1>1, <2>1 DEF CallsInv, AttemptsInside
    <3>2. i-1 \in 1..n BY <1>1, <2>1, <3>1
    <3> QED BY <1>1, <3>1, <3>2
  <2>2. CASE i = n + 1
    <3>1. stack # <<>> /\ Top.call \in {"execute", "simulate"} BY <1>1, <2>2 DEF Running
    <3>2. n \in Nat \ {0} /\ Top = stack[n] BY <1>0, <3>1, PopShape DEF n
    <3>3. n \in 1..n /\ (n + 1) - 1 = n /\ n + 1 > 1 BY <3>2
    <3> QED BY <1>1, <2>2, <3>1, <3>2, <3>3
  <2> QED BY <1>8, <2>1, <2>2
<1> QED BY <1>2, <1>3, <1>5, <1>9, <1>10, <1>11 DEF CallsInv

(* A return keeps it if it leaves a storage that fits the frames below.     *)
LEMMA Popped ==
  ASSUME CallsInv, stack # <<>>, stack' = Front(stack), Fits(store', stack, Len(stack) - 1)
  PROVE  CallsInv'
<1> DEFINE n == Len(stack)
<1>0. StackOK /\ SavedFit BY DEF CallsInv
<1>1. /\ n \in Nat \ {0} /\ DOMAIN stack = 1..n
      /\ stack' \in Seq(Frame) /\ Len(stack') = n - 1
      /\ DOMAIN stack' = 1..(n - 1)
      /\ \A i \in 1..(n - 1) : stack'[i] = stack[i]
  BY <1>0, PopShape
<1>2. StackOK'
  <2>1. n <= MaxDepth BY <1>0 DEF StackOK
  <2>2. Len(stack') <= MaxDepth BY <1>1, <2>1, CallsAssumption
  <2> QED BY <1>1, <2>2 DEF StackOK
<1> HIDE DEF n
<1>3. ASSUME NEW s, NEW i \in 0..(n - 1), Fits(s, stack, i) PROVE Fits(s, stack', i)
  <2>1. i \in Int /\ \A j \in 1..i : stack'[j] = stack[j] BY <1>1
  <2> QED BY <1>3, <2>1, FitsSame DEF SameKind
<1>4. Fits(store', stack', Len(stack'))
  <2>1. n - 1 \in 0..(n - 1) BY <1>1
  <2> QED BY <1>1, <1>3, <2>1 DEF n
<1>5. SavedFit'
  <2> SUFFICES ASSUME NEW i \in 1..(n - 1) PROVE Fits(stack'[i].saved, stack', i-1)
    BY <1>1 DEF SavedFit
  <2>1. i \in 1..n /\ i-1 \in 0..(n - 1) BY <1>1
  <2>2. Fits(stack[i].saved, stack, i-1) BY <1>0, <1>1, <2>1 DEF SavedFit
  <2>3. Fits(stack[i].saved, stack', i-1) BY <1>3, <2>1, <2>2
  <2> QED BY <1>1, <2>3
<1>6. \A i \in 1..(n - 1) : i \in 1..n BY <1>1
<1>7. OneHandlerAtATime' BY <1>1, <1>6 DEF CallsInv, OneHandlerAtATime
<1>8. OneRouter' BY <1>1, <1>6 DEF CallsInv, OneRouter
<1>9. AttemptsInside'
  <2> SUFFICES ASSUME NEW i \in 1..(n - 1), stack'[i].call = "attempt"
               PROVE  i > 1 /\ stack'[i-1].call \in {"execute", "simulate"}
    BY <1>1 DEF AttemptsInside
  <2>1. i > 1 /\ stack[i-1].call \in {"execute", "simulate"}
    BY <1>1, <1>6 DEF CallsInv, AttemptsInside
  <2>2. i-1 \in 1..(n - 1) BY <1>1, <2>1
  <2> QED BY <1>1, <2>1, <2>2
<1> QED BY <1>2, <1>4, <1>5, <1>7, <1>8, <1>9 DEF CallsInv

-----------------------------------------------------------------------------
(* What a call finds: the storage still fits the frames below its own.      *)
LEMMA Laid ==
  ASSUME CallsInv, NEW call \in Calls, Push(call)
  PROVE  /\ Len(stack) \in Nat /\ Fits(store, stack', Len(stack))
         /\ stack'[Len(stack) + 1].call = call
         /\ Len(stack) + 1 \in Depths
         /\ \A i \in 1..Len(stack) : stack'[i] = stack[i]
<1>0. StackOK /\ store \in Storage /\ Fits(store, stack, Len(stack)) BY DEF CallsInv, Fits
<1>1. /\ Len(stack) \in Nat /\ Len(stack') = Len(stack) + 1 /\ Len(stack') <= MaxDepth
      /\ stack'[Len(stack) + 1].call = call
      /\ \A i \in 1..Len(stack) : stack'[i] = stack[i]
  BY <1>0, PushShape
<1> DEFINE n == Len(stack)
<1>2. n \in Int /\ \A i \in 1..n : stack'[i] = stack[i] BY <1>1
<1>3. Fits(store, stack, n) BY <1>0
<1> HIDE DEF n
<1>4. Fits(store, stack', n) BY <1>2, <1>3, FitsSame DEF SameKind
<1>5. Len(stack) + 1 \in Depths BY <1>1, CallsAssumption DEF Depths
<1> QED BY <1>1, <1>4, <1>5 DEF n

(* A frame that takes the guards of its kind, or none, and touches neither  *)
(* prices nor flags.                                                        *)
LEMMA FitsCall ==
  ASSUME NEW s \in Storage, NEW r \in Storage, NEW a, NEW n \in Nat, Fits(s, a, n),
         r.guard = (s.guard \/ a[n+1].call \in Guarded),
         r.routerGuard = (s.routerGuard \/ a[n+1].call \in Routed),
         r.primaryPrices = s.primaryPrices, r.tokensWithPrices = s.tokensWithPrices,
         r.flags = s.flags \/ a[n+1].call = "swap"
  PROVE  Fits(r, a, n+1)
<1>0. \A j : j \in 1..(n+1) <=> j \in 1..n \/ j = n+1 OBVIOUS
<1>1. GuardFits(r, a, n+1) BY <1>0 DEF Fits, GuardFits
<1>2. RouterFits(r, a, n+1) BY <1>0 DEF Fits, RouterFits
<1>3. PricesFit(r, a, n+1) BY <1>0 DEF Fits, PricesFit
<1>4. FlagsFit(r, a, n+1) BY <1>0 DEF Fits, FlagsFit
<1>5. SetFits(r) BY DEF Fits, SetFits
<1> QED BY <1>1, <1>2, <1>3, <1>4, <1>5 DEF Fits

(* The same for a frame that also brings prices, where there were none.     *)
LEMMA FitsPriced ==
  ASSUME NEW s \in Storage, NEW r \in Storage, NEW a, NEW n \in Nat, Fits(s, a, n),
         a[n+1].call \in Priced, a[n+1].call # "swap",
         r.guard, r.routerGuard = (s.routerGuard \/ a[n+1].call \in Routed), r.flags = s.flags,
         s.tokensWithPrices = {}, NEW tokens \in SUBSET PriceTokens,
         \A t \in PriceTokens :
           r.primaryPrices[t] = IF t \in tokens THEN n + 1 ELSE s.primaryPrices[t],
         r.tokensWithPrices = tokens
  PROVE  Fits(r, a, n+1)
<1>0. \A j : j \in 1..(n+1) <=> j \in 1..n \/ j = n+1 OBVIOUS
<1>1. GuardFits(r, a, n+1) BY <1>0 DEF GuardFits, Priced
<1>2. RouterFits(r, a, n+1) BY <1>0 DEF Fits, RouterFits
<1>3. \A t \in PriceTokens : s.primaryPrices[t] = 0 BY DEF Fits, SetFits
<1>4. PricesFit(r, a, n+1) BY <1>0, <1>3 DEF PricesFit
<1>5. FlagsFit(r, a, n+1) BY <1>0 DEF Fits, FlagsFit
<1>6. SetFits(r) BY <1>3 DEF SetFits
<1> QED BY <1>1, <1>2, <1>4, <1>5, <1>6 DEF Fits

(* Oracle.setPrices, field by field.                                        *)
LEMMA SetPricesIs ==
  ASSUME NEW s \in Storage, NEW tokens \in SUBSET PriceTokens, Len(stack) + 1 \in Depths
  PROVE  /\ SetPrices(s, tokens) \in Storage
         /\ SetPrices(s, tokens).guard = s.guard
         /\ SetPrices(s, tokens).routerGuard = s.routerGuard
         /\ SetPrices(s, tokens).flags = s.flags
         /\ SetPrices(s, tokens).tokensWithPrices = s.tokensWithPrices \cup tokens
         /\ \A t \in PriceTokens : SetPrices(s, tokens).primaryPrices[t] =
              IF t \in tokens THEN Len(stack) + 1 ELSE s.primaryPrices[t]
BY DEF SetPrices, Storage

(* Oracle.clearAllPrices leaves no price when the set names them all.       *)
LEMMA ClearAllPricesIs ==
  ASSUME NEW s \in Storage, SetFits(s)
  PROVE  /\ ClearAllPrices(s) \in Storage
         /\ ClearAllPrices(s).guard = s.guard
         /\ ClearAllPrices(s).routerGuard = s.routerGuard
         /\ ClearAllPrices(s).flags = s.flags
         /\ ClearAllPrices(s).tokensWithPrices = {}
         /\ \A t \in PriceTokens : ClearAllPrices(s).primaryPrices[t] = 0
<1>1. 0 \in Depths BY CallsAssumption DEF Depths
<1>2. \A t \in PriceTokens : t \in s.tokensWithPrices <=> s.primaryPrices[t] # 0 BY DEF SetFits
<1> QED BY <1>1, <1>2 DEF ClearAllPrices, Storage

-----------------------------------------------------------------------------
LEMMA BeginRequestInv == ASSUME CallsInv, BeginRequest PROVE CallsInv'
<1> DEFINE n == Len(stack)
<1>1. "request" \in Calls /\ Push("request") BY DEF BeginRequest, Calls
<1>2. n \in Nat /\ Fits(store, stack', n) /\ stack'[n + 1].call = "request" BY <1>1, Laid
<1>3. store \in Storage BY DEF CallsInv, Fits
<1>4. /\ store' \in Storage /\ store'.guard = TRUE /\ store'.routerGuard = TRUE
      /\ store'.primaryPrices = store.primaryPrices
      /\ store'.tokensWithPrices = store.tokensWithPrices /\ store'.flags = store.flags
  BY <1>3 DEF BeginRequest, Storage
<1>5. "request" \in Guarded /\ "request" \in Routed /\ ~store.guard /\ ~store.routerGuard
  BY DEF Guarded, Routed, BeginRequest
<1> HIDE DEF n
<1>6. Fits(store', stack', n + 1) BY <1>2, <1>3, <1>4, <1>5, FitsCall
<1> QED BY <1>1, <1>5, <1>6, Pushed DEF n

LEMMA BeginClaimInv == ASSUME CallsInv, BeginClaim PROVE CallsInv'
<1> DEFINE n == Len(stack)
<1>1. "claim" \in Calls /\ Push("claim") BY DEF BeginClaim, Calls
<1>2. n \in Nat /\ Fits(store, stack', n) /\ stack'[n + 1].call = "claim" BY <1>1, Laid
<1>3. store \in Storage BY DEF CallsInv, Fits
<1>4. /\ store' \in Storage /\ store'.guard = store.guard /\ store'.routerGuard = TRUE
      /\ store'.primaryPrices = store.primaryPrices
      /\ store'.tokensWithPrices = store.tokensWithPrices /\ store'.flags = store.flags
  BY <1>3 DEF BeginClaim, Storage
<1>5. "claim" \notin Guarded /\ "claim" \in Routed /\ ~store.routerGuard /\ store.guard \in BOOLEAN
  BY <1>3 DEF Guarded, Routed, BeginClaim, Storage
<1> HIDE DEF n
<1>6. Fits(store', stack', n + 1) BY <1>2, <1>3, <1>4, <1>5, FitsCall
<1> QED BY <1>1, <1>5, <1>6, Pushed DEF n

LEMMA BeginExecutionInv ==
  ASSUME CallsInv, NEW tokens \in SUBSET PriceTokens, BeginExecution(tokens) PROVE CallsInv'
<1> DEFINE n == Len(stack)
           s == [store EXCEPT !.guard = TRUE]
<1>1. "execute" \in Calls /\ Push("execute") BY DEF BeginExecution, Calls
<1>2. /\ n \in Nat /\ Fits(store, stack', n) /\ stack'[n + 1].call = "execute"
      /\ Len(stack) + 1 \in Depths
  BY <1>1, Laid
<1>3. store \in Storage BY DEF CallsInv, Fits
<1>4. /\ s \in Storage /\ s.guard /\ s.routerGuard = store.routerGuard /\ s.flags = store.flags
      /\ s.tokensWithPrices = store.tokensWithPrices /\ s.primaryPrices = store.primaryPrices
  BY <1>3 DEF Storage
<1>5. store' = SetPrices(s, tokens) /\ ~store.guard /\ store.tokensWithPrices = {}
  BY DEF BeginExecution
<1> HIDE DEF s
<1>6. /\ store' \in Storage /\ store'.guard = s.guard /\ store'.routerGuard = s.routerGuard
      /\ store'.flags = s.flags /\ store'.tokensWithPrices = s.tokensWithPrices \cup tokens
      /\ \A t \in PriceTokens :
           store'.primaryPrices[t] = IF t \in tokens THEN n + 1 ELSE s.primaryPrices[t]
  <2>0. s \in Storage /\ Len(stack) + 1 \in Depths BY <1>2, <1>4
  <2>1. /\ SetPrices(s, tokens) \in Storage
        /\ SetPrices(s, tokens).guard = s.guard
        /\ SetPrices(s, tokens).routerGuard = s.routerGuard
        /\ SetPrices(s, tokens).flags = s.flags
        /\ SetPrices(s, tokens).tokensWithPrices = s.tokensWithPrices \cup tokens
        /\ \A t \in PriceTokens : SetPrices(s, tokens).primaryPrices[t] =
             IF t \in tokens THEN Len(stack) + 1 ELSE s.primaryPrices[t]
    BY <2>0, SetPricesIs, Zenon
  <2> QED BY <1>5, <2>1
<1>7. /\ "execute" \in Guarded /\ "execute" \in Priced /\ "execute" \notin Routed
      /\ store.routerGuard \in BOOLEAN
  BY <1>3 DEF Guarded, Priced, Routed, Storage
<1>8. /\ store'.guard /\ store'.routerGuard = (store.routerGuard \/ stack'[n + 1].call \in Routed)
      /\ store'.flags = store.flags /\ store'.tokensWithPrices = tokens
      /\ \A t \in PriceTokens :
           store'.primaryPrices[t] = IF t \in tokens THEN n + 1 ELSE store.primaryPrices[t]
  BY <1>2, <1>4, <1>5, <1>6, <1>7
<1> HIDE DEF n
<1>9. Fits(store', stack', n + 1) BY <1>2, <1>3, <1>5, <1>6, <1>7, <1>8, FitsPriced
<1> QED BY <1>1, <1>5, <1>7, <1>9, Pushed DEF n

(* A simulation needs no check of the prices: without a guard there is no   *)
(* frame that could have left one.                                          *)
LEMMA BeginSimulationInv ==
  ASSUME CallsInv, NEW tokens \in SUBSET PriceTokens, BeginSimulation(tokens) PROVE CallsInv'
<1> DEFINE n == Len(stack)
           s == [store EXCEPT !.routerGuard = TRUE, !.guard = TRUE]
<1>1. "simulate" \in Calls /\ Push("simulate") BY DEF BeginSimulation, Calls
<1>2. /\ n \in Nat /\ Fits(store, stack', n) /\ stack'[n + 1].call = "simulate"
      /\ Len(stack) + 1 \in Depths
  BY <1>1, Laid
<1>3. store \in Storage BY DEF CallsInv, Fits
<1>4. /\ s \in Storage /\ s.guard /\ s.routerGuard = TRUE /\ s.flags = store.flags
      /\ s.tokensWithPrices = store.tokensWithPrices /\ s.primaryPrices = store.primaryPrices
  BY <1>3 DEF Storage
<1>5. store' = SetPrices(s, tokens) /\ ~store.guard /\ ~store.routerGuard
  BY DEF BeginSimulation
<1> HIDE DEF s
<1>6. /\ store' \in Storage /\ store'.guard = s.guard /\ store'.routerGuard = s.routerGuard
      /\ store'.flags = s.flags /\ store'.tokensWithPrices = s.tokensWithPrices \cup tokens
      /\ \A t \in PriceTokens :
           store'.primaryPrices[t] = IF t \in tokens THEN n + 1 ELSE s.primaryPrices[t]
  <2>0. s \in Storage /\ Len(stack) + 1 \in Depths BY <1>2, <1>4
  <2>1. /\ SetPrices(s, tokens) \in Storage
        /\ SetPrices(s, tokens).guard = s.guard
        /\ SetPrices(s, tokens).routerGuard = s.routerGuard
        /\ SetPrices(s, tokens).flags = s.flags
        /\ SetPrices(s, tokens).tokensWithPrices = s.tokensWithPrices \cup tokens
        /\ \A t \in PriceTokens : SetPrices(s, tokens).primaryPrices[t] =
             IF t \in tokens THEN Len(stack) + 1 ELSE s.primaryPrices[t]
    BY <2>0, SetPricesIs, Zenon
  <2> QED BY <1>5, <2>1
<1>7. /\ "simulate" \in Guarded /\ "simulate" \in Priced /\ "simulate" \in Routed
  BY DEF Guarded, Priced, Routed
<1>8. store.tokensWithPrices = {}
  <2>1. \A j \in 1..n : stack'[j].call \notin Guarded BY <1>2, <1>5 DEF Fits, GuardFits
  <2>2. \A t \in PriceTokens : store.primaryPrices[t] = 0
    BY <1>2, <2>1 DEF Fits, PricesFit, Priced
  <2> QED BY <1>2, <2>2 DEF Fits, SetFits
<1>9. /\ store'.guard /\ store'.routerGuard = (store.routerGuard \/ stack'[n + 1].call \in Routed)
      /\ store'.flags = store.flags /\ store'.tokensWithPrices = tokens
      /\ \A t \in PriceTokens :
           store'.primaryPrices[t] = IF t \in tokens THEN n + 1 ELSE store.primaryPrices[t]
  BY <1>2, <1>4, <1>6, <1>7, <1>8
<1> HIDE DEF n
<1>10. Fits(store', stack', n + 1) BY <1>2, <1>3, <1>6, <1>7, <1>8, <1>9, FitsPriced
<1> QED BY <1>1, <1>5, <1>7, <1>10, Pushed DEF n

(* The calls that leave the storage alone.                                  *)
LEMMA IdleCallInv ==
  ASSUME CallsInv, NEW call \in {"attempt", "foreign"}, Push(call), UNCHANGED store,
         call = "attempt" => Running({"execute", "simulate"})
  PROVE  CallsInv'
<1> DEFINE n == Len(stack)
<1>1. call \in Calls /\ call \notin Guarded /\ call \notin Routed /\ call # "swap"
  BY DEF Calls, Guarded, Routed
<1>2. n \in Nat /\ Fits(store, stack', n) /\ stack'[n + 1].call = call BY <1>1, Laid
<1> HIDE DEF n
<1>3. Fits(store', stack', n + 1) BY <1>1, <1>2, FitsIdle
<1> QED BY <1>1, <1>3, Pushed DEF n

LEMMA BeginSwapInv ==
  ASSUME CallsInv, NEW path \in SUBSET Markets, BeginSwap(path) PROVE CallsInv'
<1> DEFINE n == Len(stack)
<1>1. "swap" \in Calls /\ Push("swap") BY DEF BeginSwap, Calls
<1>2. n \in Nat /\ Fits(store, stack', n) /\ stack'[n + 1].call = "swap" BY <1>1, Laid
<1>3. store \in Storage BY DEF CallsInv, Fits
<1>4. /\ store' \in Storage /\ store'.guard = store.guard /\ store'.routerGuard = store.routerGuard
      /\ store'.primaryPrices = store.primaryPrices
      /\ store'.tokensWithPrices = store.tokensWithPrices
  BY <1>3 DEF BeginSwap, Storage
<1>5. /\ "swap" \notin Guarded /\ "swap" \notin Routed
      /\ store.guard \in BOOLEAN /\ store.routerGuard \in BOOLEAN
  BY <1>3 DEF Guarded, Routed, Storage
<1> HIDE DEF n
<1>6. Fits(store', stack', n + 1) BY <1>2, <1>3, <1>4, <1>5, FitsCall
<1> QED BY <1>1, <1>5, <1>6, Pushed DEF n

-----------------------------------------------------------------------------
(* A frame that releases what it holds, and takes its prices and its flags  *)
(* with it.                                                                 *)
LEMMA FitsReturn ==
  ASSUME NEW s \in Storage, NEW r \in Storage, NEW a, NEW n \in Nat \ {0}, Fits(s, a, n),
         \A i, j \in 1..n : a[i].call \in Guarded /\ a[j].call \in Guarded => i = j,
         \A i, j \in 1..n : a[i].call \in Routed /\ a[j].call \in Routed => i = j,
         r.guard = (s.guard /\ a[n].call \notin Guarded),
         r.routerGuard = (s.routerGuard /\ a[n].call \notin Routed),
         \/ /\ r.primaryPrices = s.primaryPrices /\ r.tokensWithPrices = s.tokensWithPrices
            /\ a[n].call \notin Priced
         \/ r.tokensWithPrices = {} /\ \A t \in PriceTokens : r.primaryPrices[t] = 0,
         FlagsFit(r, a, n-1)
  PROVE  Fits(r, a, n-1)
<1>0. n \in 1..n /\ \A j : j \in 1..n <=> j \in 1..(n-1) \/ j = n OBVIOUS
<1>1. n \notin 1..(n-1) OBVIOUS
<1>2. GuardFits(r, a, n-1) BY <1>0, <1>1 DEF Fits, GuardFits
<1>3. RouterFits(r, a, n-1) BY <1>0, <1>1 DEF Fits, RouterFits
<1>4. PricesFit(r, a, n-1) BY <1>0 DEF Fits, PricesFit
<1>5. SetFits(r) BY DEF Fits, SetFits
<1> QED BY <1>2, <1>3, <1>4, <1>5 DEF Fits

(* What a return finds.                                                     *)
LEMMA Returning ==
  ASSUME CallsInv, stack # <<>>
  PROVE  /\ Len(stack) \in Nat \ {0} /\ store \in Storage
         /\ Fits(store, stack, Len(stack))
         /\ Top = stack[Len(stack)] /\ Top.saved \in Storage
         /\ Fits(Top.saved, stack, Len(stack) - 1)
         /\ \A i, j \in 1..Len(stack) :
              stack[i].call \in Guarded /\ stack[j].call \in Guarded => i = j
         /\ \A i, j \in 1..Len(stack) :
              stack[i].call \in Routed /\ stack[j].call \in Routed => i = j
<1>0. StackOK /\ Fits(store, stack, Len(stack)) /\ SavedFit /\ OneHandlerAtATime /\ OneRouter
  BY DEF CallsInv
<1>1. Len(stack) \in Nat \ {0} /\ DOMAIN stack = 1..Len(stack) /\ Top = stack[Len(stack)]
  BY <1>0, PopShape
<1>2. Len(stack) \in DOMAIN stack BY <1>1
<1>3. Fits(Top.saved, stack, Len(stack) - 1) BY <1>0, <1>1, <1>2 DEF SavedFit
<1>4. store \in Storage /\ Top.saved \in Storage BY <1>0, <1>3 DEF Fits
<1>5. \A i, j \in 1..Len(stack) : stack[i].call \in Guarded /\ stack[j].call \in Guarded => i = j
  BY <1>0, <1>1 DEF OneHandlerAtATime
<1>6. \A i, j \in 1..Len(stack) : stack[i].call \in Routed /\ stack[j].call \in Routed => i = j
  BY <1>0, <1>1 DEF OneRouter
<1> QED BY <1>0, <1>1, <1>3, <1>4, <1>5, <1>6

(* The flags that were there are still right when the top is no swap.       *)
LEMMA FlagsBelow ==
  ASSUME NEW s, NEW r, NEW a, NEW n \in Nat \ {0}, Fits(s, a, n),
         r.flags = s.flags, a[n].call # "swap"
  PROVE  FlagsFit(r, a, n-1)
<1>0. \A j : j \in 1..n <=> j \in 1..(n-1) \/ j = n OBVIOUS
<1> QED BY <1>0 DEF Fits, FlagsFit

(* The returns that keep prices and flags.                                  *)
LEMMA PlainReturn ==
  ASSUME CallsInv, stack # <<>>, stack' = Front(stack), store' \in Storage,
         Top.call \notin Priced, Top.call # "swap",
         store'.guard = (store.guard /\ Top.call \notin Guarded),
         store'.routerGuard = (store.routerGuard /\ Top.call \notin Routed),
         store'.primaryPrices = store.primaryPrices,
         store'.tokensWithPrices = store.tokensWithPrices, store'.flags = store.flags
  PROVE  CallsInv'
<1> DEFINE n == Len(stack)
<1>1. /\ n \in Nat \ {0} /\ store \in Storage /\ Fits(store, stack, n) /\ Top = stack[n]
      /\ \A i, j \in 1..n : stack[i].call \in Guarded /\ stack[j].call \in Guarded => i = j
      /\ \A i, j \in 1..n : stack[i].call \in Routed /\ stack[j].call \in Routed => i = j
  BY Returning
<1> HIDE DEF n
<1>2. FlagsFit(store', stack, n-1) BY <1>1, FlagsBelow
<1>3. Fits(store', stack, n-1) BY <1>1, <1>2, FitsReturn
<1> QED BY <1>3, Popped DEF n

LEMMA EndRequestInv == ASSUME CallsInv, EndRequest PROVE CallsInv'
<1>1. stack # <<>> /\ Top.call = "request" /\ stack' = Front(stack) BY DEF EndRequest, Running
<1>2. store \in Storage BY DEF CallsInv, Fits
<1>3. /\ store' \in Storage /\ store'.guard = FALSE /\ store'.routerGuard = FALSE
      /\ store'.primaryPrices = store.primaryPrices
      /\ store'.tokensWithPrices = store.tokensWithPrices /\ store'.flags = store.flags
  BY <1>2 DEF EndRequest, Storage
<1>4. "request" \in Guarded /\ "request" \in Routed /\ "request" \notin Priced /\ "request" # "swap"
  BY DEF Guarded, Routed, Priced
<1> QED BY <1>1, <1>3, <1>4, PlainReturn

LEMMA EndClaimInv == ASSUME CallsInv, EndClaim PROVE CallsInv'
<1>1. stack # <<>> /\ Top.call = "claim" /\ stack' = Front(stack) BY DEF EndClaim, Running
<1>2. store \in Storage BY DEF CallsInv, Fits
<1>3. /\ store' \in Storage /\ store'.guard = store.guard /\ store'.routerGuard = FALSE
      /\ store'.primaryPrices = store.primaryPrices
      /\ store'.tokensWithPrices = store.tokensWithPrices /\ store'.flags = store.flags
      /\ store.guard \in BOOLEAN
  BY <1>2 DEF EndClaim, Storage
<1>4. "claim" \notin Guarded /\ "claim" \in Routed /\ "claim" \notin Priced /\ "claim" # "swap"
  BY DEF Guarded, Routed, Priced
<1> QED BY <1>1, <1>3, <1>4, PlainReturn

LEMMA EndForeignInv == ASSUME CallsInv, EndForeign PROVE CallsInv'
<1>1. stack # <<>> /\ Top.call = "foreign" /\ stack' = Front(stack) /\ store' = store
  BY DEF EndForeign, Running
<1>2. store \in Storage /\ store.guard \in BOOLEAN /\ store.routerGuard \in BOOLEAN
  BY DEF CallsInv, Fits, Storage
<1>3. /\ "foreign" \notin Guarded /\ "foreign" \notin Routed /\ "foreign" \notin Priced
      /\ "foreign" # "swap"
  BY DEF Guarded, Routed, Priced
<1> QED BY <1>1, <1>2, <1>3, PlainReturn

LEMMA EndExecutionInv == ASSUME CallsInv, EndExecution PROVE CallsInv'
<1> DEFINE n == Len(stack)
           s == [store EXCEPT !.guard = FALSE]
<1>1. /\ stack # <<>> /\ Top.call \in {"executed", "failed"} /\ stack' = Front(stack)
      /\ store' = ClearAllPrices(s)
  BY DEF EndExecution, Running
<1>2. /\ n \in Nat \ {0} /\ store \in Storage /\ Fits(store, stack, n) /\ Top = stack[n]
      /\ \A i, j \in 1..n : stack[i].call \in Guarded /\ stack[j].call \in Guarded => i = j
      /\ \A i, j \in 1..n : stack[i].call \in Routed /\ stack[j].call \in Routed => i = j
  BY <1>1, Returning
<1>3. /\ s \in Storage /\ s.guard = FALSE /\ s.routerGuard = store.routerGuard
      /\ s.flags = store.flags /\ SetFits(s) /\ store.routerGuard \in BOOLEAN
  BY <1>2 DEF Fits, SetFits, Storage
<1> HIDE DEF n, s
<1>4. /\ ClearAllPrices(s) \in Storage
      /\ ClearAllPrices(s).guard = s.guard
      /\ ClearAllPrices(s).routerGuard = s.routerGuard
      /\ ClearAllPrices(s).flags = s.flags
      /\ ClearAllPrices(s).tokensWithPrices = {}
      /\ \A t \in PriceTokens : ClearAllPrices(s).primaryPrices[t] = 0
  BY <1>3, ClearAllPricesIs, Zenon
<1>5. /\ store' \in Storage /\ store'.guard = FALSE /\ store'.routerGuard = store.routerGuard
      /\ store'.flags = store.flags /\ store'.tokensWithPrices = {}
      /\ \A t \in PriceTokens : store'.primaryPrices[t] = 0
  BY <1>1, <1>3, <1>4
<1>6. stack[n].call \in Guarded /\ stack[n].call \notin Routed /\ stack[n].call # "swap"
  BY <1>1, <1>2 DEF Guarded, Routed
<1>7. FlagsFit(store', stack, n-1) BY <1>2, <1>5, <1>6, FlagsBelow
<1>8. Fits(store', stack, n-1) BY <1>2, <1>3, <1>5, <1>6, <1>7, FitsReturn
<1> QED BY <1>1, <1>8, Popped DEF n

LEMMA EndSwapInv == ASSUME CallsInv, EndSwap PROVE CallsInv'
<1> DEFINE n == Len(stack)
<1>1. stack # <<>> /\ Top.call = "swap" /\ stack' = Front(stack) BY DEF EndSwap, Running
<1>2. /\ n \in Nat \ {0} /\ store \in Storage /\ Fits(store, stack, n) /\ Top = stack[n]
      /\ Top.saved \in Storage /\ Fits(Top.saved, stack, n-1)
      /\ \A i, j \in 1..n : stack[i].call \in Guarded /\ stack[j].call \in Guarded => i = j
      /\ \A i, j \in 1..n : stack[i].call \in Routed /\ stack[j].call \in Routed => i = j
  BY <1>1, Returning
<1>3. /\ store' \in Storage /\ store'.guard = store.guard /\ store'.routerGuard = store.routerGuard
      /\ store'.primaryPrices = store.primaryPrices
      /\ store'.tokensWithPrices = store.tokensWithPrices /\ store'.flags = Top.saved.flags
      /\ store.guard \in BOOLEAN /\ store.routerGuard \in BOOLEAN
  BY <1>2 DEF EndSwap, Storage
<1>4. "swap" \notin Guarded /\ "swap" \notin Routed /\ "swap" \notin Priced
  BY DEF Guarded, Routed, Priced
<1> HIDE DEF n
<1>5. FlagsFit(store', stack, n-1) BY <1>2, <1>3 DEF Fits, FlagsFit
<1>6. Fits(store', stack, n-1) BY <1>1, <1>2, <1>3, <1>4, <1>5, FitsReturn
<1> QED BY <1>1, <1>6, Popped DEF n

(* A revert, and the end of a simulation, restore what the frame found.     *)
LEMMA RevertInv ==
  ASSUME CallsInv, stack # <<>>, store' = Top.saved, stack' = Front(stack)
  PROVE  CallsInv'
<1>1. Fits(Top.saved, stack, Len(stack) - 1) BY Returning
<1>2. Fits(store', stack, Len(stack) - 1) BY <1>1
<1> QED BY <1>2, Popped

-----------------------------------------------------------------------------
(* The end of an attempt renames the frame below it, within its kind.       *)
LEMMA AttemptShape ==
  ASSUME CallsInv, NEW success \in BOOLEAN, EndAttempt(success)
  PROVE  /\ stack # <<>> /\ Top.call = "attempt" /\ Len(stack) > 1
         /\ stack' \in Seq(Frame) /\ Len(stack') = Len(stack) - 1
         /\ DOMAIN stack' = 1..(Len(stack) - 1)
         /\ \A i \in 1..(Len(stack) - 1) :
              /\ stack'[i].saved = stack[i].saved
              /\ SameKind(stack[i], stack'[i])
              /\ stack[i].call \in Priced <=> stack'[i].call \in Priced
         /\ stack'[Len(stack) - 1].call # "attempt"
         /\ \A i \in 1..(Len(stack) - 1) : i # Len(stack) - 1 => stack'[i] = stack[i]
<1> DEFINE n == Len(stack)
           m == Len(stack) - 1
           rest == Front(stack)
           f == [rest[m] EXCEPT !.call = Outcome(success)[@]]
<1>1. stack # <<>> /\ Top.call = "attempt" BY DEF EndAttempt, Running
<1>2. StackOK BY DEF CallsInv
<1>3. /\ n \in Nat \ {0} /\ DOMAIN stack = 1..n
      /\ rest \in Seq(Frame) /\ Len(rest) = m
      /\ \A i \in 1..m : rest[i] = stack[i]
      /\ Top = stack[n]
  BY <1>1, <1>2, PopShape
<1>4. n > 1 /\ stack[m].call \in {"execute", "simulate"}
  <2>1. n \in DOMAIN stack BY <1>3
  <2> QED BY <1>1, <1>3, <2>1 DEF CallsInv, AttemptsInside
<1>5. m \in 1..m /\ m \in Nat BY <1>3, <1>4
<1>6. stack' = [rest EXCEPT ![m] = f] BY <1>3 DEF EndAttempt
<1>7. rest[m] = stack[m] /\ rest[m] \in Frame BY <1>3, <1>5, ElementOfSeq
<1>8. /\ f \in Frame /\ f.saved = stack[m].saved /\ f.call = Outcome(success)[stack[m].call]
  <2>1. Outcome(success)[stack[m].call] \in Calls BY <1>4 DEF Outcome, Calls
  <2> QED BY <1>7, <2>1 DEF Frame
<1>9. \/ f.call \in {"executed", "failed"} /\ stack[m].call = "execute"
      \/ f.call = "simulated" /\ stack[m].call = "simulate"
  BY <1>4, <1>8 DEF Outcome
<1> HIDE DEF n, m, rest, f
<1>10. /\ stack' \in Seq(Frame) /\ Len(stack') = m
       /\ \A j \in 1..m : stack'[j] = IF j = m THEN f ELSE rest[j]
  BY <1>3, <1>5, <1>6, <1>8, ExceptSeq
<1>11. DOMAIN stack' = 1..m BY <1>10, LenProperties
<1>12. SameKind(stack[m], f) /\ (stack[m].call \in Priced <=> f.call \in Priced) /\ f.call # "attempt"
  BY <1>9 DEF SameKind, Guarded, Routed, Priced
<1>13. \A i \in 1..m : /\ stack'[i].saved = stack[i].saved
                       /\ SameKind(stack[i], stack'[i])
                       /\ stack[i].call \in Priced <=> stack'[i].call \in Priced
  BY <1>3, <1>8, <1>10, <1>12 DEF SameKind
<1>14. \A i \in 1..m : i # m => stack'[i] = stack[i] BY <1>3, <1>10
<1>15. stack'[m].call # "attempt" BY <1>5, <1>10, <1>12
<1> QED BY <1>1, <1>4, <1>10, <1>11, <1>13, <1>14, <1>15 DEF n, m

LEMMA EndAttemptInv ==
  ASSUME CallsInv, NEW success \in BOOLEAN, EndAttempt(success) PROVE CallsInv'
<1> DEFINE n == Len(stack)
           m == Len(stack) - 1
<1>1. /\ stack # <<>> /\ Top.call = "attempt" /\ n > 1
      /\ stack' \in Seq(Frame) /\ Len(stack') = m
      /\ DOMAIN stack' = 1..m
      /\ \A i \in 1..m : /\ stack'[i].saved = stack[i].saved
                         /\ SameKind(stack[i], stack'[i])
                         /\ stack[i].call \in Priced <=> stack'[i].call \in Priced
      /\ stack'[m].call # "attempt"
      /\ \A i \in 1..m : i # m => stack'[i] = stack[i]
  BY AttemptShape
<1>2. /\ n \in Nat \ {0} /\ Fits(store, stack, n) /\ Top = stack[n] /\ Fits(Top.saved, stack, n-1)
      /\ \A i, j \in 1..n : stack[i].call \in Guarded /\ stack[j].call \in Guarded => i = j
      /\ \A i, j \in 1..n : stack[i].call \in Routed /\ stack[j].call \in Routed => i = j
  BY <1>1, Returning
<1>3. n <= MaxDepth /\ SavedFit /\ DOMAIN stack = 1..n
  BY <1>1, PopShape DEF CallsInv, StackOK
<1>4. StackOK' BY <1>1, <1>2, <1>3, CallsAssumption DEF StackOK
<1>5. m \in Nat /\ m + 1 = n /\ \A i \in 1..m : i \in 1..n BY <1>2
<1>6. store' = IF success THEN store ELSE Top.saved BY DEF EndAttempt
<1> HIDE DEF n, m
<1>7. Fits(store, stack, m)
  <2>1. /\ stack[m+1].call \notin Guarded /\ stack[m+1].call \notin Routed
        /\ stack[m+1].call # "swap"
    BY <1>1, <1>2, <1>5 DEF Guarded, Routed
  <2>2. Fits(store, stack, m+1) BY <1>2, <1>5
  <2> QED BY <1>5, <2>1, <2>2, FitsIdle
<1>8. Fits(store', stack, m)
  <2>1. n - 1 = m BY <1>5
  <2> QED BY <1>2, <1>6, <1>7, <2>1
<1>9. ASSUME NEW s, NEW i \in 0..m, Fits(s, stack, i) PROVE Fits(s, stack', i)
  <2>1. i \in Int /\ \A j \in 1..i : j \in 1..m BY <1>5
  <2>2. \A j \in 1..i : SameKind(stack[j], stack'[j]) BY <1>1, <2>1
  <2>3. \A j \in 1..i : stack[j].call \in Priced <=> stack'[j].call \in Priced BY <1>1, <2>1
  <2> QED BY <1>9, <2>1, <2>2, <2>3, FitsSame
<1>10. Fits(store', stack', Len(stack'))
  <2>1. m \in 0..m BY <1>5
  <2> QED BY <1>1, <1>8, <1>9, <2>1
<1>11. SavedFit'
  <2> SUFFICES ASSUME NEW i \in 1..m PROVE Fits(stack'[i].saved, stack', i-1)
    BY <1>1 DEF SavedFit
  <2>1. i-1 \in 0..m BY <1>5
  <2>2. Fits(stack[i].saved, stack, i-1) BY <1>3, <1>5 DEF SavedFit
  <2>3. Fits(stack[i].saved, stack', i-1) BY <1>9, <2>1, <2>2
  <2> QED BY <1>1, <2>3
<1>12. OneHandlerAtATime' BY <1>1, <1>2, <1>5 DEF OneHandlerAtATime, SameKind
<1>13. OneRouter' BY <1>1, <1>2, <1>5 DEF OneRouter, SameKind
<1>14. AttemptsInside'
  <2> SUFFICES ASSUME NEW i \in 1..m, stack'[i].call = "attempt"
               PROVE  i > 1 /\ stack'[i-1].call \in {"execute", "simulate"}
    BY <1>1 DEF AttemptsInside
  <2>1. i # m /\ stack'[i] = stack[i] BY <1>1
  <2>2. i > 1 /\ stack[i-1].call \in {"execute", "simulate"}
    BY <1>3, <1>5, <2>1 DEF CallsInv, AttemptsInside
  <2>3. i-1 \in 1..m /\ i-1 # m BY <1>5, <2>2
  <2> QED BY <1>1, <2>2, <2>3
<1> QED BY <1>4, <1>10, <1>11, <1>12, <1>13, <1>14 DEF CallsInv

-----------------------------------------------------------------------------
LEMMA CallsNextInv == CallsInv /\ [Next]_vars => CallsInv'
<1> SUFFICES ASSUME CallsInv, [Next]_vars PROVE CallsInv' OBVIOUS
<1>1. CASE BeginRequest BY <1>1, BeginRequestInv
<1>2. CASE EndRequest BY <1>2, EndRequestInv
<1>3. ASSUME NEW tokens \in SUBSET PriceTokens, BeginExecution(tokens) PROVE CallsInv'
  BY <1>3, BeginExecutionInv
<1>4. ASSUME NEW tokens \in SUBSET PriceTokens, BeginSimulation(tokens) PROVE CallsInv'
  BY <1>4, BeginSimulationInv
<1>5. CASE EndExecution BY <1>5, EndExecutionInv
<1>6. CASE EndSimulation
  <2>1. stack # <<>> /\ store' = Top.saved /\ stack' = Front(stack)
    BY <1>6 DEF EndSimulation, Running
  <2> QED BY <2>1, RevertInv
<1>7. CASE BeginClaim BY <1>7, BeginClaimInv
<1>8. CASE EndClaim BY <1>8, EndClaimInv
<1>9. CASE BeginAttempt BY <1>9, IdleCallInv DEF BeginAttempt
<1>10. ASSUME NEW success \in BOOLEAN, EndAttempt(success) PROVE CallsInv'
  BY <1>10, EndAttemptInv
<1>11. ASSUME NEW path \in SUBSET Markets \ {{}}, BeginSwap(path) PROVE CallsInv'
  BY <1>11, BeginSwapInv
<1>12. CASE EndSwap BY <1>12, EndSwapInv
<1>13. CASE CallForeign BY <1>13, IdleCallInv DEF CallForeign
<1>14. CASE EndForeign BY <1>14, EndForeignInv
<1>15. CASE Revert BY <1>15, RevertInv DEF Revert
<1>16. CASE UNCHANGED vars
  BY <1>16 DEF vars, CallsInv, StackOK, SavedFit, OneHandlerAtATime, OneRouter, AttemptsInside
<1> QED
  BY <1>1, <1>2, <1>3, <1>4, <1>5, <1>6, <1>7, <1>8, <1>9, <1>10, <1>11, <1>12, <1>13, <1>14,
     <1>15, <1>16, Zenon DEF Next

LEMMA CallsInit == Init => CallsInv
<1> SUFFICES ASSUME Init PROVE CallsInv OBVIOUS
<1>1. store = AtRestStorage /\ stack = <<>> BY DEF Init
<1>2. stack \in Seq(Frame) /\ Len(stack) = 0 BY <1>1, EmptySeq
<1>3. DOMAIN stack = {} BY <1>2, LenProperties
<1>4. StackOK BY <1>2, CallsAssumption DEF StackOK
<1>5. /\ AtRestStorage \in Storage /\ ~AtRestStorage.guard /\ ~AtRestStorage.routerGuard
      /\ AtRestStorage.tokensWithPrices = {} /\ AtRestStorage.flags = {}
      /\ \A t \in PriceTokens : AtRestStorage.primaryPrices[t] = 0
  BY CallsAssumption DEF AtRestStorage, Storage, NoPrices, Depths
<1>6. Fits(store, stack, 0)
  BY <1>1, <1>5 DEF Fits, SetFits, GuardFits, RouterFits, PricesFit, FlagsFit
<1> QED BY <1>2, <1>3, <1>4, <1>6 DEF CallsInv, SavedFit, OneHandlerAtATime, OneRouter, AttemptsInside

LEMMA CallsInvariant == Spec => []CallsInv
<1> QED BY CallsInit, CallsNextInv, PTL DEF Spec

(* Nested calls, callbacks, reverts and failed attempts leave nothing       *)
(* behind: when no call runs, no guard is held, no price is set and no      *)
(* market is flagged (GlobalReentrancyGuard.sol, Oracle.clearAllPrices,     *)
(* SwapUtils.swap); and the oracle's set always names every priced token.   *)
THEOREM CallsAtRest == Spec => []AtRest
<1>1. CallsInv => AtRest
  <2> SUFFICES ASSUME CallsInv PROVE AtRest OBVIOUS
  <2>1. TypeOK BY DEF CallsInv, StackOK, Fits, SetFits, TypeOK
  <2>2. ASSUME stack = <<>> PROVE store = AtRestStorage
    <3>1. Fits(store, stack, 0) BY <2>2, EmptySeq DEF CallsInv
    <3>2. store \in Storage BY <3>1 DEF Fits
    <3>3. ~store.guard /\ ~store.routerGuard /\ store.flags = {}
      BY <3>1 DEF Fits, GuardFits, RouterFits, FlagsFit
    <3>4. \A t \in PriceTokens : store.primaryPrices[t] = 0 BY <3>1 DEF Fits, PricesFit
    <3>5. store.tokensWithPrices = {} BY <3>1, <3>4 DEF Fits, SetFits
    <3>6. store.primaryPrices = NoPrices BY <3>2, <3>4 DEF Storage, NoPrices
    <3> QED BY <3>2, <3>3, <3>5, <3>6 DEF Storage, AtRestStorage
  <2> QED BY <2>1, <2>2 DEF AtRest
<1> QED BY <1>1, CallsInvariant, PTL

(* Whatever foreign code calls, at any depth, one handler at most is half   *)
(* way through the stores (globalNonReentrant of every handler).            *)
THEOREM CallsOneHandler == Spec => []OneHandlerAtATime
<1>1. CallsInv => OneHandlerAtATime BY DEF CallsInv
<1> QED BY <1>1, CallsInvariant, PTL

(* The prices in the oracle while a handler runs are those its own          *)
(* transaction brought (withOraclePrices, withSimulatedOraclePrices).       *)
THEOREM CallsOwnPrices == Spec => []OwnPrices
<1>1. CallsInv => OwnPrices
  <2> SUFFICES ASSUME CallsInv, NEW i \in DOMAIN stack, stack[i].call \in Guarded,
                      NEW t \in store.tokensWithPrices
               PROVE  store.primaryPrices[t] = i
    BY DEF OwnPrices
  <2>1. Fits(store, stack, Len(stack)) /\ OneHandlerAtATime /\ StackOK BY DEF CallsInv
  <2>2. DOMAIN stack = 1..Len(stack) BY <2>1, LenProperties DEF StackOK
  <2>3. t \in PriceTokens /\ store.primaryPrices[t] # 0 BY <2>1 DEF Fits, SetFits
  <2>4. /\ store.primaryPrices[t] \in DOMAIN stack
        /\ stack[store.primaryPrices[t]].call \in Guarded
    BY <2>1, <2>2, <2>3 DEF Fits, PricesFit, Priced
  <2> QED BY <2>1, <2>4 DEF OneHandlerAtATime
<1> QED BY <1>1, CallsInvariant, PTL

(* No market stays flagged after the swap that flagged it (SwapUtils.swap), *)
(* whether that swap ended, failed or was undone with all around it.        *)
THEOREM CallsOwnFlags == Spec => []OwnFlags
<1>1. CallsInv => OwnFlags
  <2> SUFFICES ASSUME CallsInv PROVE OwnFlags OBVIOUS
  <2>1. Fits(store, stack, Len(stack)) /\ StackOK BY DEF CallsInv
  <2>2. DOMAIN stack = 1..Len(stack) BY <2>1, LenProperties DEF StackOK
  <2> QED BY <2>1, <2>2 DEF Fits, FlagsFit, OwnFlags
<1> QED BY <1>1, CallsInvariant, PTL
=============================================================================
