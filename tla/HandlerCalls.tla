---------------------------- MODULE HandlerCalls ----------------------------
(***************************************************************************)
(* The call stack of one chain: which handlers may run inside which, and    *)
(* the storage they share while they do: the global reentrancy guard, the   *)
(* router's own guard, the oracle's prices and the swap path flags.         *)
(*                                                                         *)
(* Foreign code runs in callbacks and when native tokens are sent, also in  *)
(* the middle of a swap, and may call every entry point.  A call that       *)
(* reverts restores the storage it found, so every frame keeps a copy.  A   *)
(* call that a modifier rejects changes nothing and is left out.            *)
(***************************************************************************)
EXTENDS Integers, Sequences, SequencesExt

CONSTANTS PriceTokens, \* tokens the oracle may have prices of
          Markets,     \* markets a swap path may go through
          MaxDepth     \* bound on the depth of the stack

ASSUME CallsAssumption == MaxDepth \in Nat \ {0}

Depths == 0..MaxDepth

NoPrices == [t \in PriceTokens |-> 0]

(* primaryPrices holds the depth of the call that set the token's price, 0  *)
(* when it has none; tokensWithPrices is the oracle's set of the others.    *)
Storage == [guard : BOOLEAN, routerGuard : BOOLEAN,
            primaryPrices : [PriceTokens -> Depths], tokensWithPrices : SUBSET PriceTokens,
            flags : SUBSET Markets]

AtRestStorage == [guard |-> FALSE, routerGuard |-> FALSE,
                  primaryPrices |-> NoPrices, tokensWithPrices |-> {}, flags |-> {}]

(* The calls: a request through the router, a keeper's execution and its    *)
(* `try this._execute...`, a simulation, a claim, a swap of a path, foreign *)
(* code.  An execution and a simulation change their name with the outcome  *)
(* of the attempt.                                                          *)
Calls == {"request", "execute", "executed", "failed", "simulate", "simulated",
          "attempt", "claim", "swap", "foreign"}

Frame == [call : Calls, saved : Storage]

VARIABLES store, stack
vars == <<store, stack>>

Top == Last(stack)
Running(calls) == stack # <<>> /\ Top.call \in calls

ForeignRuns == stack = <<>> \/ Running({"foreign"})

Push(call) ==
  /\ Len(stack) < MaxDepth
  /\ stack' = Append(stack, [call |-> call, saved |-> store])

Init == store = AtRestStorage /\ stack = <<>>

(* Oracle._setPrimaryPrice for each token: none may have a price already.   *)
CanSetPrices(tokens) == \A t \in tokens : store.primaryPrices[t] = 0

SetPrices(s, tokens) ==
  [s EXCEPT !.primaryPrices = [t \in PriceTokens |-> IF t \in tokens THEN Len(stack) + 1 ELSE @[t]],
            !.tokensWithPrices = @ \cup tokens]

(* Oracle.clearAllPrices follows the set.                                   *)
ClearAllPrices(s) ==
  [s EXCEPT !.primaryPrices = [t \in PriceTokens |-> IF t \in s.tokensWithPrices THEN 0 ELSE @[t]],
            !.tokensWithPrices = {}]

-----------------------------------------------------------------------------
(* Fault: a request does not look at the global guard.                      *)
BeginRequestUnguarded ==
  /\ ForeignRuns
  /\ ~store.routerGuard
  /\ store' = [store EXCEPT !.routerGuard = TRUE, !.guard = TRUE]
  /\ Push("request")

(* ExchangeRouter.create..., update... and cancel... (nonReentrant), then   *)
(* the handler (globalNonReentrant).                                        *)
BeginRequest ==
  /\ ForeignRuns
  /\ ~store.routerGuard /\ ~store.guard
  /\ store' = [store EXCEPT !.routerGuard = TRUE, !.guard = TRUE]
  /\ Push("request")

EndRequest ==
  /\ Running({"request"})
  /\ store' = [store EXCEPT !.routerGuard = FALSE, !.guard = FALSE]
  /\ stack' = Front(stack)

-----------------------------------------------------------------------------
(* globalNonReentrant, then withOraclePrices: setPrices rejects any price   *)
(* that is still there.                                                     *)
BeginExecution(tokens) ==
  /\ ForeignRuns
  /\ ~store.guard
  /\ store.tokensWithPrices = {} /\ CanSetPrices(tokens)
  /\ store' = SetPrices([store EXCEPT !.guard = TRUE], tokens)
  /\ Push("execute")

(* Fault: a failed execution returns without clearing the prices.           *)
EndExecutionFailedKeepsPrices ==
  /\ Running({"executed", "failed"})
  /\ LET s == [store EXCEPT !.guard = FALSE]
     IN  store' = IF Running({"failed"}) THEN s ELSE ClearAllPrices(s)
  /\ stack' = Front(stack)

(* clearAllPrices, then the guard is released, after success and failure.   *)
EndExecution ==
  /\ Running({"executed", "failed"})
  /\ store' = ClearAllPrices([store EXCEPT !.guard = FALSE])
  /\ stack' = Front(stack)

-----------------------------------------------------------------------------
(* Fault: a simulation does not look at the global guard.                   *)
BeginSimulationUnguarded(tokens) ==
  /\ ForeignRuns
  /\ ~store.routerGuard
  /\ CanSetPrices(tokens)
  /\ store' = SetPrices([store EXCEPT !.routerGuard = TRUE, !.guard = TRUE], tokens)
  /\ Push("simulate")

(* The router's guard, then withSimulatedOraclePrices, which adds prices to *)
(* those there are, and only then globalNonReentrant.                       *)
BeginSimulation(tokens) ==
  /\ ForeignRuns
  /\ ~store.routerGuard
  /\ CanSetPrices(tokens)
  /\ ~store.guard
  /\ store' = SetPrices([store EXCEPT !.routerGuard = TRUE, !.guard = TRUE], tokens)
  /\ Push("simulate")

(* Fault: a simulation ends like an execution of the router's.              *)
EndSimulationCommits ==
  /\ Running({"simulated"})
  /\ store' = [store EXCEPT !.routerGuard = FALSE, !.guard = FALSE]
  /\ stack' = Front(stack)

(* A simulation always ends with EndOfOracleSimulation.                     *)
EndSimulation ==
  /\ Running({"simulated"})
  /\ store' = Top.saved
  /\ stack' = Front(stack)

-----------------------------------------------------------------------------
(* The claim functions of the router go without the global guard.           *)
BeginClaim ==
  /\ ForeignRuns
  /\ ~store.routerGuard
  /\ store' = [store EXCEPT !.routerGuard = TRUE]
  /\ Push("claim")

EndClaim ==
  /\ Running({"claim"})
  /\ store' = [store EXCEPT !.routerGuard = FALSE]
  /\ stack' = Front(stack)

-----------------------------------------------------------------------------
BeginAttempt ==
  /\ Running({"execute", "simulate"})
  /\ Push("attempt")
  /\ UNCHANGED store

Outcome(success) ==
  [execute  |-> IF success THEN "executed" ELSE "failed",
   simulate |-> "simulated"]

(* The attempt of an execution may fail for good reasons and bad, after any *)
(* part of it was done; that of a simulation takes the simulation with it.  *)
EndAttempt(success) ==
  /\ Running({"attempt"})
  /\ store' = IF success THEN store ELSE Top.saved
  /\ LET rest == Front(stack)
     IN  stack' = [rest EXCEPT ![Len(rest)].call = Outcome(success)[@]]

(* SwapUtils.swap flags the markets of its path one by one, rejects one     *)
(* that is flagged already, and clears the flags it set.                    *)
BeginSwap(path) ==
  /\ Running({"attempt"})
  /\ path \cap store.flags = {}
  /\ store' = [store EXCEPT !.flags = @ \cup path]
  /\ Push("swap")

(* Fault: only the flags of a swap that fails are cleared.                  *)
EndSwapKeepsFlags ==
  /\ Running({"swap"})
  /\ stack' = Front(stack)
  /\ UNCHANGED store

EndSwap ==
  /\ Running({"swap"})
  /\ store' = [store EXCEPT !.flags = Top.saved.flags]
  /\ stack' = Front(stack)

(* A callback, or native tokens sent to a contract.                         *)
CallForeign ==
  /\ Running({"request", "attempt", "failed", "swap"})
  /\ Push("foreign")
  /\ UNCHANGED store

EndForeign ==
  /\ Running({"foreign"})
  /\ stack' = Front(stack)
  /\ UNCHANGED store

(* A call reverts to what it found; the one around it goes on: the failed   *)
(* callback, transfer or swap is caught, and foreign code may catch what it *)
(* called.                                                                  *)
Revert ==
  /\ stack # <<>> /\ Top.call # "attempt"
  /\ store' = Top.saved
  /\ stack' = Front(stack)

-----------------------------------------------------------------------------
Next ==
  \/ BeginRequest \/ EndRequest
  \/ \E tokens \in SUBSET PriceTokens : BeginExecution(tokens) \/ BeginSimulation(tokens)
  \/ EndExecution \/ EndSimulation
  \/ BeginClaim \/ EndClaim
  \/ BeginAttempt
  \/ \E success \in BOOLEAN : EndAttempt(success)
  \/ \E path \in SUBSET Markets \ {{}} : BeginSwap(path)
  \/ EndSwap
  \/ CallForeign \/ EndForeign
  \/ Revert

Spec == Init /\ [][Next]_vars

-----------------------------------------------------------------------------
(* The set that clearAllPrices follows names every token with a price, or a *)
(* price would stay for ever.                                               *)
TypeOK ==
  /\ store \in Storage
  /\ store.tokensWithPrices = {t \in PriceTokens : store.primaryPrices[t] # 0}
  /\ stack \in Seq(Frame) /\ Len(stack) <= MaxDepth

(* Between transactions no guard is held, no price of a past transaction is *)
(* left for the next one to use, and no market is barred from swap paths,   *)
(* whichever calls failed, were caught or were simulated; and in between    *)
(* the set of tokens with prices names them all.                            *)
AtRest == TypeOK /\ (stack = <<>> => store = AtRestStorage)

Guarded == {"request", "execute", "executed", "failed", "simulate", "simulated"}

(* Foreign code, wherever it runs, never gets a second handler to work on   *)
(* the stores while one is half way.  The lifecycle modules rely on it.     *)
OneHandlerAtATime ==
  \A i, j \in DOMAIN stack :
    stack[i].call \in Guarded /\ stack[j].call \in Guarded => i = j

(* A handler only ever sees prices its own transaction brought, also after  *)
(* a callback simulated something with prices of its own.                   *)
OwnPrices ==
  \A i \in DOMAIN stack :
    stack[i].call \in Guarded =>
      \A t \in store.tokensWithPrices : store.primaryPrices[t] = i

(* A swap finds no flag of a path that is over or failed, so a market is    *)
(* refused only when its own path names it twice.                           *)
OwnFlags ==
  (\A i \in DOMAIN stack : stack[i].call # "swap") => store.flags = {}

(* OracleModule.sol:38 says of simulations that tokensWithPrices is not     *)
(* set.  setPrimaryPrice adds to it.                                        *)
SimulationSetsNoTokens ==
  [][(stack' # <<>> /\ Last(stack').call = "simulate" /\ Len(stack') > Len(stack))
       => store'.tokensWithPrices = store.tokensWithPrices]_vars
=============================================================================
