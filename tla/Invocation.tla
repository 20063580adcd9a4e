----------------------------- MODULE Invocation -----------------------------
(***************************************************************************)
(* The two entry points that call a contract of another party between      *)
(* reading and writing storage, cut in two at that call: vote, which calls *)
(* the vault with the task record in a local copy and the mutex of         *)
(* reentrancy.rs held, and start_reward_stream, which calls Drips without  *)
(* the mutex.  All other entry points remain single steps, those that move *)
(* tokens included: the token is taken to be one that calls nobody, so its *)
(* transfer is a plain change of balances.                                 *)
(*                                                                         *)
(* The host is external.  It runs one invocation at a time and refuses a   *)
(* call into a contract that is already on the call stack, so nothing but  *)
(* the return of the callee follows the call.  A host that is reentrant    *)
(* would let the callee call back any entry point, nested up to MaxDepth   *)
(* calls; it is here to show what the mutex of the code adds by itself.    *)
(* The ledger clock stands still during a call.                            *)
(***************************************************************************)
EXTENDS VeroCore

CONSTANT MaxDepth     \* bound on nested calls

ASSUME DepthAssumption == MaxDepth \in Nat

VARIABLES
  lock,         \* DataKey::Lock is present
  frames,       \* the invocations waiting for their callee, innermost last
  called_back,  \* the innermost callee has called back into the contract
  reentrant     \* the host admits calls into a waiting contract; never changes

frameVars == <<lock, frames, called_back, reentrant>>

(* What vote and start_reward_stream keep in local variables during their  *)
(* call.                                                                   *)
VoteFrame == [entry : {"vote"}, guardian : Address, task : TaskId,
              weight : 0..U64Max, copy : TaskRecord]

StreamFrame == [entry : {"start_reward_stream"}, task : TaskId,
                contributor : Contributor]

Top == frames[Len(frames)]

InVote == frames # <<>> /\ Top.entry = "vote"

InStream == frames # <<>> /\ Top.entry = "start_reward_stream"

(* The host runs an entry point now.                                       *)
Admits == frames = <<>> \/ reentrant

(* An entry point that runs to its end.                                    *)
RunsToEnd ==
  /\ Admits
  /\ called_back' = (frames # <<>>)
  /\ UNCHANGED <<frames, reentrant>>

(* One that calls out and waits.                                           *)
Push(frame) ==
  /\ Admits
  /\ Len(frames) < MaxDepth
  /\ frames' = Append(frames, frame)
  /\ called_back' = FALSE
  /\ UNCHANGED reentrant

Pop ==
  /\ frames' = SubSeq(frames, 1, Len(frames) - 1)
  /\ called_back' = (Len(frames) > 1)
  /\ UNCHANGED reentrant

(* Mutant: the mutex is not consulted.                                     *)
LockIgnored == TRUE

(* reentrancy::lock succeeds.                                              *)
LockFree == ~lock

(* The entry points that call neither the vault nor Drips nor take the     *)
(* mutex.                                                                  *)
WholeInvocation ==
  /\ \/ BreakerStep
     \/ GuardianStep
     \/ TokenStep
     \/ \E t \in TaskId : ArchiveTask(t)
     \/ \E th \in WeightThresholds : SetWeightThreshold(th)
     \/ \E v \in Vault : SetVaultAddress(v)
  /\ UNCHANGED lock

(* register_tasks, cancel_task and a vote that does not call the vault     *)
(* take the mutex and give it back before they end.  On the early returns  *)
(* of all three the host undoes the invocation, the mutex with it.         *)
GuardedRegister(t) == LockFree /\ RegisterTask(t) /\ lock' = FALSE

GuardedCancel(t) == LockFree /\ CancelTask(t) /\ lock' = FALSE

GuardedVote(g, t) ==
  /\ LockFree
  /\ Vote(g, t, TRUE)
  /\ ~CallsVault(active_task[t], calculate_voting_power(g))
  /\ lock' = FALSE

(* vote up to the vault call: the mutex is taken, the checks passed, the   *)
(* new record computed from the one in storage.                            *)
VoteCall(g, t) ==
  LET weight == calculate_voting_power(g)
  IN  /\ LockFree
      /\ VoterError(g, t) = Ok
      /\ TallyError(t, weight, TRUE) = Ok
      /\ CallsVault(active_task[t], weight)
      /\ lock' = TRUE
      /\ Push([entry |-> "vote", guardian |-> g, task |-> t,
               weight |-> weight, copy |-> Accrue(active_task[t], weight)])
      /\ UNCHANGED vars

(* The vault returned: the log is read and extended, the Voted entry and   *)
(* the local copy are written, the mutex is given back.                    *)
VoteReturn ==
  /\ InVote
  /\ LET g == Top.guardian
         t == Top.task
     IN  /\ released' = [released EXCEPT ![t] = @ + 1]
         /\ all_votes' = Append(all_votes, <<t, g>>)
         /\ voted' = voted \cup {<<t, g>>}
         /\ active_task' = [active_task EXCEPT ![t] = Top.copy]
         /\ ballot' = [ballot EXCEPT ![t][g] = Top.weight]
  /\ lock' = FALSE
  /\ Pop
  /\ UNCHANGED <<weight_threshold, vault_address, archived_task, all_tasks,
                 breakerVars, guardianVars, tokenVars, streamVars, now>>

(* Mutant: the failed call is ignored and the record written all the same. *)
VoteFailsOpen ==
  /\ InVote
  /\ ~called_back
  /\ active_task' = [active_task EXCEPT ![Top.task] = Top.copy]
  /\ lock' = FALSE
  /\ Pop
  /\ UNCHANGED <<archived_task, all_tasks, voteVars, vaultVars, breakerVars,
                 guardianVars, tokenVars, streamVars, now>>

(* The vault failed: unlock, Err, and the host undoes the invocation.  It  *)
(* also undoes what a failing callee did, so a vault that fails after it   *)
(* called back is one that fails at once.                                  *)
VoteFails ==
  /\ InVote
  /\ ~called_back
  /\ lock' = FALSE
  /\ Pop
  /\ UNCHANGED vars

(* start_reward_stream up to the Drips call.                               *)
StreamCall(contributor, t) ==
  /\ StartRewardStreamError(t, TRUE) = Ok
  /\ Push([entry |-> "start_reward_stream", task |-> t,
           contributor |-> contributor])
  /\ UNCHANGED <<lock, vars>>

(* Drips returned: the list and the stream entry are written.              *)
StreamReturn ==
  /\ InStream
  /\ all_streams' = Append(all_streams, Top.task)
  /\ reward_stream' = [reward_stream EXCEPT ![Top.task] = Top.contributor]
  /\ Pop
  /\ UNCHANGED <<lock, breakerVars, guardianVars, tokenVars, taskVars,
                 voteVars, vaultVars, now>>

(* Drips failed: invoke_contract traps.                                    *)
StreamFails == InStream /\ ~called_back /\ Pop /\ UNCHANGED <<lock, vars>>

InvocationInit ==
  /\ Init
  /\ lock = FALSE
  /\ frames = <<>>
  /\ called_back = FALSE
  /\ reentrant \in BOOLEAN

InvocationNext ==
  \/ WholeInvocation /\ RunsToEnd
  \/ \E t \in TaskId : (GuardedRegister(t) \/ GuardedCancel(t)) /\ RunsToEnd
  \/ \E g \in Address, t \in TaskId : GuardedVote(g, t) /\ RunsToEnd
  \/ \E g \in Address, t \in TaskId : VoteCall(g, t)
  \/ VoteReturn
  \/ VoteFails
  \/ \E c \in Contributor, t \in TaskId : StreamCall(c, t)
  \/ StreamReturn
  \/ StreamFails
  \/ frames = <<>> /\ Tick /\ UNCHANGED frameVars

InvocationSpec == InvocationInit /\ [][InvocationNext]_<<vars, frameVars>>

-----------------------------------------------------------------------------
(* The mutex alone keeps the tallies exact.  vote writes back a copy of    *)
(* the record that it made before it called the vault; even on a host that *)
(* lets the vault call every entry point meanwhile, archive_task and       *)
(* start_reward_stream included, no vote is lost or counted twice.         *)
NoVoteLost == VotesMatchVoters /\ WeightMatchesBallots /\ VoteLogExact

(* On a host that refuses re-entry the external calls in the middle of     *)
(* vote and start_reward_stream are invisible: the split contract          *)
(* implements the one whose entry points are single steps, and every       *)
(* theorem about Spec carries over.                                        *)
ImplementsAtomic == Init /\ [][reentrant \/ Next]_vars
=============================================================================
