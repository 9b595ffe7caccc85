----------------------------- MODULE RRefProtocol -----------------------------
(***************************************************************************)
(* The reference counting of one RRef: RRefContext on its owner and on the *)
(* workers that use it, the control messages between them, and the retries *)
(* of RpcAgent::sendWithRetries underneath.  RRefs do not interact, so one *)
(* RRef is all there is to see; its tree of forks, the workers that the    *)
(* forks are sent to and the order and fate of the messages are free.      *)
(*                                                                         *)
(* A UserRRef is named by its ForkId.  The object is alive while something *)
(* holds it: user code or the call it came with (held), pendingUsers_ of   *)
(* its worker, or pendingChildren_ on behalf of a child.  The destructor   *)
(* runs in the step that drops the last of these.                          *)
(*                                                                         *)
(* An OwnerRRef is an instance number: getOrCreateOwnerRRef makes a new    *)
(* instance whenever owners_ has none.                                     *)
(***************************************************************************)
EXTENDS Naturals, FiniteSets

CONSTANTS
  Worker, Owner,      \* the workers, and the one that owns the RRef
  ForkId,             \* ids for forks
  Self,               \* the RRefId used as fork id (remote() to oneself)
  NoFork, NoWorker,
  Creations,          \* how the RRef may come into being
  Callees,            \* workers that forks are sent to
  EarlyFork,          \* the creator may share its RRef before remote() is answered
  Lossy,              \* types of messages that may get lost
  MaxLosses,          \* bound: messages lost
  Slow,               \* types of calls that may time out with a message still under way
  MaxEarly,           \* bound: such timeouts
  Leavers,            \* workers that may shut down
  MaxRetries          \* RpcRetryOptions::maxRetries

Ref == ForkId \cup {Self}

Control == {"fork_request", "child_accept", "user_delete"}

Call == ({"remote", "fetch"} \cup Control) \X Ref

ASSUME WorkerAssumption == Owner \in Worker /\ Callees \subseteq Worker /\ NoWorker \notin Worker
ASSUME ForkAssumption ==
  /\ Self \notin ForkId /\ NoFork \notin Ref
  /\ Owner \notin Ref /\ NoFork # Owner
ASSUME CreationAssumption ==
  Creations \subseteq {"remote", "self", "local"} /\ EarlyFork \in BOOLEAN
ASSUME BoundAssumption ==
  /\ MaxLosses \in Nat /\ MaxEarly \in Nat /\ MaxRetries \in Nat
  /\ Lossy \subseteq {c[1] : c \in Call} \cup {"share"}
  /\ Slow \subseteq {c[1] : c \in Call} \cup {"shutdown"} /\ Leavers \subseteq Worker

VARIABLES
  \* ---- the owner's RRefContext
  owners,             \* the instance in owners_, 0 when there is none
  forks,              \* forks_[rrefId]; an empty set stands for no entry
  instances,          \* OwnerRRef objects made so far
  assigning,          \* assignOwnerRRef before addForkOfOwner: <<fork, instance>>
  computing,          \* remote calls whose value is not set yet: <<fork, instance>>
  filled,             \* instances whose future has a value
  waiting,            \* to_here calls: <<fork, instance>>, 0 for pendingOwners_
  local,              \* instances that user code on the owner holds
  \* ---- the forks
  parent, at,         \* where a fork comes from, and the worker it is sent to
  sharedEarly,        \* history: forks of a creator that remote() had not confirmed
  held, pendingUsers, confirmedUsers, pendingChildren, deletedOnOwner,
  timedOut,           \* RRef::timedOut_
  \* ---- the agents
  msgs, rpc, early, losses,
  \* ---- graceful shutdown
  shutdown            \* workers in delAllUsersAndUnforkedOwners; {} before

workVars == <<assigning, computing, filled>>
ownerVars == <<owners, forks, instances, workVars, waiting, local>>
treeVars == <<parent, at, sharedEarly>>
userVars == <<held, pendingUsers, confirmedUsers, pendingChildren, deletedOnOwner>>
netVars == <<msgs, rpc>>
boundVars == <<early, losses>>
vars == <<ownerVars, treeVars, userVars, timedOut, netVars, boundVars, shutdown>>

Instance == 0..instances

Request(c, n) == [type |-> c[1], fork |-> c[2], try |-> n, reply |-> FALSE]

Init ==
  /\ owners = 0 /\ forks = {} /\ instances = 0 /\ assigning = {} /\ computing = {} /\ filled = {}
  /\ waiting = {} /\ local = {}
  /\ parent = [f \in ForkId |-> NoFork] /\ at = [f \in ForkId |-> NoWorker]
  /\ sharedEarly = {}
  /\ held = {} /\ pendingUsers = {} /\ confirmedUsers = {} /\ pendingChildren = {}
  /\ deletedOnOwner = {} /\ timedOut = {}
  /\ msgs = {} /\ rpc = [c \in Call |-> [st |-> "none", try |-> 0]]
  /\ early = 0 /\ losses = 0 /\ shutdown = {}

------------------------------------------------------------------------------
(***************************************************************************)
(* RpcAgent.  Every attempt of a call is a message of its own.  The sender *)
(* awaits the reply to the last attempt only: the future of an attempt     *)
(* that timed out is completed, and whatever is answered to it is ignored. *)
(***************************************************************************)
Awaits(m) == m.type # "share" /\ rpc[m.type, m.fork] = [st |-> "sent", try |-> m.try]

Reply(m) == IF Awaits(m) THEN {[m EXCEPT !.reply = TRUE]} ELSE {}

\* Messages `in' are consumed, `out' are sent, `calls' are made; `ended' calls
\* have their future completed.
Exchange(in, out, calls, ended) ==
  /\ msgs' = (msgs \ in) \cup out \cup {Request(c, 0) : c \in calls}
  /\ rpc' = [c \in Call |->
               CASE c \in calls -> [st |-> "sent", try |-> 0]
                 [] c \in ended -> [rpc[c] EXCEPT !.st = "done"]
                 [] OTHER -> rpc[c]]

\* Messages of the attempt that call c awaits.
UnderWay(c) ==
  {m \in msgs : m.type = c[1] /\ m.fork = c[2] /\ m.try = rpc[c].try}

\* The owner is at work on call c.
InProcess(c) ==
  \/ c[1] = "remote" /\ c[2] \in {w[1] : w \in assigning \cup computing}
  \/ c[1] = "fetch" /\ c[2] \in {w[1] : w \in waiting}

\* A timeout too soon.  There is one to_here() per fork: it needs no bound.
Impatient(t) ==
  /\ t \in Slow
  /\ \/ t = "fetch" /\ UNCHANGED early
     \/ t # "fetch" /\ early < MaxEarly /\ early' = early + 1

\* The attempt fails: its request or its reply was lost, or it times out early.
AttemptFails(c) ==
  /\ rpc[c].st = "sent"
  /\ \/ UnderWay(c) = {} /\ ~InProcess(c) /\ UNCHANGED early
     \/ (UnderWay(c) # {} \/ InProcess(c)) /\ Impatient(c[1])

\* Mutant: the call is given up at the first error.
RpcRetryCallbackNoRetry(c) ==
  /\ c[1] \in Control /\ AttemptFails(c)
  /\ msgs' = {m \in msgs : ~(m.reply /\ m \in UnderWay(c))}
  /\ rpc' = [rpc EXCEPT ![c].st = "error"]
  /\ UNCHANGED <<ownerVars, treeVars, userVars, timedOut, losses, shutdown>>

\* rpcRetryCallback with an error
RpcRetryCallback(c) ==
  /\ c[1] \in Control /\ AttemptFails(c)
  /\ msgs' = {m \in msgs : ~(m.reply /\ m \in UnderWay(c))}
  /\ rpc' = [rpc EXCEPT ![c].st = IF rpc[c].try < MaxRetries THEN "backoff" ELSE "error"]
  /\ UNCHANGED <<ownerVars, treeVars, userVars, timedOut, losses, shutdown>>

\* retryExpiredRpcs: the backoff is over
RetryExpiredRpc(c) ==
  /\ rpc[c].st = "backoff"
  /\ rpc' = [rpc EXCEPT ![c] = [st |-> "sent", try |-> @.try + 1]]
  /\ msgs' = msgs \cup {Request(c, rpc[c].try + 1)}
  /\ UNCHANGED <<ownerVars, treeVars, userVars, timedOut, boundVars, shutdown>>

Lose(m) ==
  /\ m.type \in Lossy /\ losses < MaxLosses
  /\ losses' = losses + 1
  /\ msgs' = msgs \ {m}
  /\ UNCHANGED <<ownerVars, treeVars, userVars, timedOut, rpc, early, shutdown>>
------------------------------------------------------------------------------
(***************************************************************************)
(* The user side.  Release gives pendingUsers_, pendingChildren_ and the   *)
(* references of user code new values; UserRRefs that nothing holds any    *)
(* more are destructed: tryDel() sends RRefUserDelete, once.               *)
(***************************************************************************)
Live(h, pu, pch) == h \cup pu \cup ({parent[c] : c \in pch} \ {Owner, NoFork})

DelUser(F) == {<<"user_delete", f>> : f \in F \ deletedOnOwner}

Release(h, pu, pch, confirmed, in, out, calls, ended) ==
  LET D == Live(held, pendingUsers, pendingChildren) \ Live(h, pu, pch)
  IN  /\ held' = h /\ pendingUsers' = pu /\ pendingChildren' = pch
      /\ deletedOnOwner' = deletedOnOwner \cup D
      /\ confirmedUsers' = (confirmedUsers \cup confirmed) \ D
      /\ Exchange(in, out, calls \cup DelUser(D), ended)

\* User code runs with fork f: a call starts when its RRefs are confirmed.
Creator(f) == parent[f] = NoFork /\ at[f] # NoWorker

Usable(f) == f \in held /\ (Creator(f) \/ f \notin pendingUsers)

Fresh(f) == at[f] = NoWorker

\* The last reference of user code to fork f goes away.
Drop(f) ==
  /\ Usable(f) /\ rpc["fetch", f].st # "sent"
  /\ Release(held \ {f}, pendingUsers, pendingChildren, {}, {}, {}, {}, {})
  /\ UNCHANGED <<ownerVars, treeVars, timedOut, boundVars, shutdown>>

------------------------------------------------------------------------------
(***************************************************************************)
(* The owner side.                                                         *)
(***************************************************************************)
\* Mutant: pendingOwners_ is not completed.
GetOrCreateOwnerRRefForgetsPending(k) ==
  \/ owners # 0 /\ k = owners /\ UNCHANGED <<instances, waiting>>
  \/ owners = 0 /\ k = instances + 1 /\ instances' = k /\ UNCHANGED waiting

\* k is the instance that owners_ has, or a new one; the to_here calls that
\* wait for it in pendingOwners_ go on to wait for its value.
GetOrCreateOwnerRRef(k) ==
  \/ owners # 0 /\ k = owners /\ UNCHANGED <<instances, waiting>>
  \/ /\ owners = 0 /\ k = instances + 1
     /\ instances' = k
     /\ waiting' = {<<w[1], IF w[2] = 0 THEN k ELSE w[2]>> : w \in waiting}

\* Mutant: the OwnerRRef stays in owners_ after its last fork.
DelForkOfOwnerKeeps(f, k) == forks' = forks \ {f} /\ owners' = k

\* forks_ and owners_ without fork f; k is what owners_ had.
DelForkOfOwner(f, k) ==
  /\ forks' = forks \ {f}
  /\ owners' = IF forks # {} /\ forks \subseteq {f} THEN 0 ELSE k

\* User code on the owner drops its reference to instance k.
DropOwner(k) ==
  /\ k \in local /\ local' = local \ {k}
  /\ UNCHANGED <<owners, forks, instances, workVars, waiting, treeVars, userVars,
                 timedOut, netVars, boundVars, shutdown>>

------------------------------------------------------------------------------
(***************************************************************************)
(* Creation: remote() to the owner, remote() to oneself, RRef(value).      *)
(***************************************************************************)
NotCreated == instances = 0 /\ \A f \in ForkId : Fresh(f)

CreateUserRRef(w, f) ==
  /\ "remote" \in Creations /\ NotCreated /\ w # Owner /\ shutdown = {}
  /\ at' = [at EXCEPT ![f] = w]
  /\ held' = held \cup {f} /\ pendingUsers' = pendingUsers \cup {f}
  /\ Exchange({}, {}, {<<"remote", f>>}, {})
  /\ UNCHANGED <<ownerVars, parent, sharedEarly, confirmedUsers, pendingChildren, deletedOnOwner,
                 timedOut, boundVars, shutdown>>

CreateSelfRemote ==
  /\ "self" \in Creations /\ NotCreated /\ shutdown = {}
  /\ instances' = 1 /\ owners' = 1 /\ forks' = {Self} /\ local' = {1}
  /\ Exchange({}, {}, {<<"remote", Self>>}, {})
  /\ UNCHANGED <<workVars, waiting, treeVars, userVars, timedOut, boundVars, shutdown>>

CreateOwnerRRef ==
  /\ "local" \in Creations /\ NotCreated /\ shutdown = {}
  /\ instances' = 1 /\ filled' = {1} /\ local' = {1}
  /\ UNCHANGED <<owners, forks, assigning, computing, waiting, treeVars, userVars, timedOut,
                 netVars, boundVars, shutdown>>

------------------------------------------------------------------------------
(***************************************************************************)
(* Sharing: pickling on the sender (prepareChildFork), unpickling on the   *)
(* receiver (getOrCreateRRef, notifyOwnerAndParentOfFork).                 *)
(***************************************************************************)
Share(c) == [type |-> "share", fork |-> c, try |-> 0, reply |-> FALSE]

\* Mutant: without addPendingChild
ForkFromUserNoPendingChild(p, c, w) ==
  /\ Usable(p) /\ p \notin deletedOnOwner \cup timedOut /\ shutdown = {}
  /\ EarlyFork \/ p \notin pendingUsers
  /\ sharedEarly' = IF p \in pendingUsers THEN sharedEarly \cup {c} ELSE sharedEarly
  /\ Fresh(c) /\ at' = [at EXCEPT ![c] = w] /\ parent' = [parent EXCEPT ![c] = p]
  /\ Exchange({}, {Share(c)}, {}, {})
  /\ UNCHANGED <<ownerVars, userVars, timedOut, boundVars, shutdown>>

ForkFromUser(p, c, w) ==
  /\ Usable(p) /\ p \notin deletedOnOwner \cup timedOut /\ shutdown = {}
  /\ EarlyFork \/ p \notin pendingUsers
  /\ sharedEarly' = IF p \in pendingUsers THEN sharedEarly \cup {c} ELSE sharedEarly
  /\ Fresh(c) /\ at' = [at EXCEPT ![c] = w] /\ parent' = [parent EXCEPT ![c] = p]
  /\ pendingChildren' = pendingChildren \cup {c}
  /\ Exchange({}, {Share(c)}, {}, {})
  /\ UNCHANGED <<ownerVars, held, pendingUsers, confirmedUsers, deletedOnOwner, timedOut,
                 boundVars, shutdown>>

ForkFromOwner(k, c, w) ==
  /\ k \in local /\ Self \notin timedOut /\ shutdown = {}
  /\ Fresh(c) /\ at' = [at EXCEPT ![c] = w] /\ parent' = [parent EXCEPT ![c] = Owner]
  /\ forks' = forks \cup {c} /\ owners' = k
  /\ Exchange({}, {Share(c)}, {}, {})
  /\ UNCHANGED <<instances, workVars, waiting, local, userVars, timedOut, boundVars,
                 shutdown, sharedEarly>>

\* The owner receives a fork of its own RRef.
ReceiveOnOwner(m) ==
  /\ m.type = "share" /\ at[m.fork] = Owner
  /\ \E k \in 1..(instances + 1) :
       /\ GetOrCreateOwnerRRef(k)
       /\ local' = local \cup {k}
       /\ \/ /\ parent[m.fork] = Owner
             /\ DelForkOfOwner(m.fork, k)
             /\ Exchange({m}, {}, {}, {})
          \/ /\ parent[m.fork] # Owner
             /\ owners' = k /\ UNCHANGED forks
             /\ Exchange({m}, {}, {<<"child_accept", m.fork>>}, {})
  /\ UNCHANGED <<workVars, treeVars, userVars, timedOut, boundVars, shutdown>>

\* Mutant: the parent is told before the owner has confirmed.
ReceiveOnUserAcceptsFirst(m) ==
  /\ m.type = "share" /\ at[m.fork] # Owner
  /\ held' = held \cup {m.fork}
  /\ \/ /\ parent[m.fork] = Owner
        /\ confirmedUsers' = confirmedUsers \cup {m.fork}
        /\ UNCHANGED pendingUsers
        /\ Exchange({m}, {}, {}, {})
     \/ /\ parent[m.fork] # Owner
        /\ pendingUsers' = pendingUsers \cup {m.fork}
        /\ UNCHANGED confirmedUsers
        /\ Exchange({m}, {}, {<<"fork_request", m.fork>>, <<"child_accept", m.fork>>}, {})
  /\ UNCHANGED <<ownerVars, treeVars, pendingChildren, deletedOnOwner, timedOut, boundVars,
                 shutdown>>

\* Mutant: without addPendingUser
ReceiveOnUserNotPending(m) ==
  /\ m.type = "share" /\ at[m.fork] # Owner
  /\ held' = held \cup {m.fork} /\ confirmedUsers' = confirmedUsers \cup {m.fork}
  /\ Exchange({m}, {}, {<<"fork_request", m.fork>> : p \in {parent[m.fork]} \ {Owner}}, {})
  /\ UNCHANGED <<ownerVars, treeVars, pendingUsers, pendingChildren, deletedOnOwner, timedOut,
                 boundVars, shutdown>>

\* Another worker receives a fork: from the owner it is confirmed already (Note
\* [Early Fork Registration]), from a user the owner is asked first.
ReceiveOnUser(m) ==
  /\ m.type = "share" /\ at[m.fork] # Owner
  /\ held' = held \cup {m.fork}
  /\ \/ /\ parent[m.fork] = Owner
        /\ confirmedUsers' = confirmedUsers \cup {m.fork}
        /\ UNCHANGED pendingUsers
        /\ Exchange({m}, {}, {}, {})
     \/ /\ parent[m.fork] # Owner
        /\ pendingUsers' = pendingUsers \cup {m.fork}
        /\ UNCHANGED confirmedUsers
        /\ Exchange({m}, {}, {<<"fork_request", m.fork>>}, {})
  /\ UNCHANGED <<ownerVars, treeVars, pendingChildren, deletedOnOwner, timedOut, boundVars,
                 shutdown>>

------------------------------------------------------------------------------
(***************************************************************************)
(* Requests.  The function runs first.  assignOwnerRRef then takes the      *)
(* lock of the context twice, for getOrCreateOwnerRRef and for             *)
(* addForkOfOwner: other threads of the agent may run in between.  The     *)
(* value of an asynchronous function, and the reply, follow later.         *)
(***************************************************************************)
ProcessRemoteCall(m) ==
  /\ m.type = "remote" /\ ~m.reply /\ m.fork # Self
  /\ \E k \in 1..(instances + 1) :
       /\ GetOrCreateOwnerRRef(k)
       /\ owners' = k /\ assigning' = assigning \cup {<<m.fork, k>>}
  /\ Exchange({m}, {}, {}, {})
  /\ UNCHANGED <<forks, computing, filled, local, treeVars, userVars, timedOut, boundVars,
                 shutdown>>

AddForkOfOwner(w) ==
  /\ w \in assigning /\ assigning' = assigning \ {w}
  /\ forks' = forks \cup {w[1]} /\ computing' = computing \cup {w}
  /\ UNCHANGED <<owners, instances, filled, waiting, local, treeVars, userVars, timedOut, netVars,
                 boundVars, shutdown>>

\* getOwnerRRef(rrefId, forceCreated): an error when owners_ has no instance
ProcessSelfRemoteCall(m) ==
  /\ m.type = "remote" /\ ~m.reply /\ m.fork = Self
  /\ computing' = IF owners # 0 THEN computing \cup {<<Self, owners>>} ELSE computing
  /\ Exchange({m}, {}, {}, {})
  /\ UNCHANGED <<owners, forks, instances, assigning, filled, waiting, local, treeVars, userVars,
                 timedOut, boundVars, shutdown>>

FunctionReturns(w) ==
  /\ w \in computing /\ computing' = computing \ {w}
  /\ filled' = filled \cup {w[2]}
  /\ Exchange({}, Reply(Request(<<"remote", w[1]>>, 0)), {}, {})
  /\ UNCHANGED <<owners, forks, instances, assigning, waiting, local, treeVars, userVars, timedOut,
                 boundVars, shutdown>>

\* to_here(): getOwnerRRef, or the future in pendingOwners_
ProcessRRefFetchCall(m) ==
  /\ m.type = "fetch" /\ ~m.reply
  /\ waiting' = waiting \cup {<<m.fork, owners>>}
  /\ Exchange({m}, {}, {}, {})
  /\ UNCHANGED <<owners, forks, instances, workVars, local, treeVars, userVars, timedOut,
                 boundVars, shutdown>>

FetchReturns(w) ==
  /\ w \in waiting /\ w[2] \in filled
  /\ waiting' = waiting \ {w}
  /\ Exchange({}, Reply(Request(<<"fetch", w[1]>>, 0)), {}, {})
  /\ UNCHANGED <<owners, forks, instances, workVars, local, treeVars, userVars, timedOut,
                 boundVars, shutdown>>

\* addForkOfOwnerIfNotPresent
ProcessRRefForkRequest(m) ==
  /\ m.type = "fork_request" /\ ~m.reply
  /\ forks' = forks \cup {m.fork}
  /\ Exchange({m}, Reply(m), {}, {})
  /\ UNCHANGED <<owners, instances, workVars, waiting, local, treeVars, userVars, timedOut,
                 boundVars, shutdown>>

\* delPendingChild, on the worker of the parent
ProcessRRefChildAccept(m) ==
  /\ m.type = "child_accept" /\ ~m.reply
  /\ Release(held, pendingUsers, pendingChildren \ {m.fork}, {}, {m}, Reply(m), {}, {})
  /\ UNCHANGED <<ownerVars, treeVars, timedOut, boundVars, shutdown>>

ProcessRRefUserDelete(m) ==
  /\ m.type = "user_delete" /\ ~m.reply
  /\ DelForkOfOwner(m.fork, owners)
  /\ Exchange({m}, Reply(m), {}, {})
  /\ UNCHANGED <<instances, workVars, waiting, local, treeVars, userVars, timedOut,
                 boundVars, shutdown>>

------------------------------------------------------------------------------
(***************************************************************************)
(* Replies.                                                                *)
(***************************************************************************)
\* confirmPendingUser, without an error
ConfirmPendingUser(m) ==
  /\ m.type = "remote" /\ m.reply /\ m.fork # Self
  /\ Release(held, pendingUsers \ {m.fork}, pendingChildren, {m.fork}, {m}, {}, {},
             {<<"remote", m.fork>>})
  /\ UNCHANGED <<ownerVars, treeVars, timedOut, boundVars, shutdown>>

\* finishCreatingOwnerRRef, without an error
FinishCreatingOwnerRRef(m) ==
  /\ m.type = "remote" /\ m.reply /\ m.fork = Self
  /\ DelForkOfOwner(Self, owners)
  /\ Exchange({m}, {}, {}, {<<"remote", Self>>})
  /\ UNCHANGED <<instances, workVars, waiting, local, treeVars, userVars, timedOut,
                 boundVars, shutdown>>

FinishForkRequest(m) ==
  /\ m.type = "fork_request" /\ m.reply
  /\ Release(held, pendingUsers \ {m.fork}, pendingChildren, {m.fork}, {m}, {},
             {<<"child_accept", m.fork>>}, {<<"fork_request", m.fork>>})
  /\ UNCHANGED <<ownerVars, treeVars, timedOut, boundVars, shutdown>>

\* RRefAck to a child accept or a delete, and the value of a to_here
CallSucceeds(m) ==
  /\ m.type \in {"child_accept", "user_delete", "fetch"} /\ m.reply
  /\ Exchange({m}, {}, {}, {<<m.type, m.fork>>})
  /\ UNCHANGED <<ownerVars, treeVars, userVars, timedOut, boundVars, shutdown>>

------------------------------------------------------------------------------
(***************************************************************************)
(* Calls that are not retried: remote() and to_here().                     *)
(***************************************************************************)
ToHere(f) ==
  /\ Usable(f) /\ f \notin deletedOnOwner \cup timedOut /\ shutdown = {}
  /\ rpc["fetch", f].st = "none"
  /\ Exchange({}, {}, {<<"fetch", f>>}, {})
  /\ UNCHANGED <<ownerVars, treeVars, userVars, timedOut, boundVars, shutdown>>

LateReplies(c) == {m \in UnderWay(c) : m.reply}

\* confirmPendingUser with a timeout: handleError, then delPendingUser all the same
RemoteTimesOut(f) ==
  /\ AttemptFails(<<"remote", f>>)
  /\ timedOut' = timedOut \cup {f}
  /\ Release(held, pendingUsers \ {f}, pendingChildren, {f}, LateReplies(<<"remote", f>>), {}, {},
             {<<"remote", f>>})
  /\ UNCHANGED <<ownerVars, treeVars, losses, shutdown>>

\* finishCreatingOwnerRRef with a timeout
SelfRemoteTimesOut ==
  /\ AttemptFails(<<"remote", Self>>)
  /\ timedOut' = timedOut \cup {Self}
  /\ DelForkOfOwner(Self, owners)
  /\ Exchange(LateReplies(<<"remote", Self>>), {}, {}, {<<"remote", Self>>})
  /\ UNCHANGED <<instances, workVars, waiting, local, treeVars, userVars, losses, shutdown>>

\* Any other error: handleException throws out of the callback.
RemoteFails(f) ==
  /\ AttemptFails(<<"remote", f>>)
  /\ msgs' = msgs \ LateReplies(<<"remote", f>>)
  /\ rpc' = [rpc EXCEPT !["remote", f].st = "error"]
  /\ UNCHANGED <<ownerVars, treeVars, userVars, timedOut, losses, shutdown>>

ToHereTimesOut(f) ==
  /\ AttemptFails(<<"fetch", f>>)
  /\ Exchange(LateReplies(<<"fetch", f>>), {}, {}, {<<"fetch", f>>})
  /\ UNCHANGED <<ownerVars, treeVars, userVars, timedOut, losses, shutdown>>

------------------------------------------------------------------------------
(***************************************************************************)
(* Graceful shutdown, once every worker has reached it and user code is in *)
(* no to_here(): no new calls; every worker waits until its pending forks  *)
(* are confirmed, or until it has waited long enough, and deletes its      *)
(* UserRRefs whether or not user code still holds them.                    *)
(***************************************************************************)
NoPending(w) ==
  /\ \A f \in pendingUsers : at[f] # w
  /\ \A c \in pendingChildren : at[parent[c]] # w

DelAllUsersAndUnforkedOwners(w) ==
  LET F == {f \in confirmedUsers : at[f] = w}
  IN  /\ w \notin shutdown /\ shutdown' = shutdown \cup {w}
      /\ \A f \in ForkId : rpc["fetch", f].st # "sent"
      /\ \/ NoPending(w) /\ UNCHANGED early
         \/ ~NoPending(w) /\ Impatient("shutdown")
      /\ confirmedUsers' = confirmedUsers \ F
      /\ deletedOnOwner' = deletedOnOwner \cup F
      /\ Exchange({}, {}, DelUser(F), {})
      /\ owners' = IF w = Owner /\ forks = {} THEN 0 ELSE owners
      /\ UNCHANGED <<forks, instances, workVars, waiting, local, treeVars, held,
                     pendingUsers, pendingChildren, timedOut, losses>>

------------------------------------------------------------------------------
Receive(m) ==
  \/ ReceiveOnOwner(m) \/ ReceiveOnUser(m)
  \/ ProcessRemoteCall(m) \/ ProcessSelfRemoteCall(m) \/ ProcessRRefFetchCall(m)
  \/ ProcessRRefForkRequest(m) \/ ProcessRRefChildAccept(m) \/ ProcessRRefUserDelete(m)
  \/ ConfirmPendingUser(m) \/ FinishCreatingOwnerRRef(m) \/ FinishForkRequest(m)
  \/ CallSucceeds(m)

OwnerStep == \/ \E w \in assigning : AddForkOfOwner(w)
             \/ \E w \in computing : FunctionReturns(w)
             \/ \E w \in waiting : FetchReturns(w)

CallFails(c) ==
  \/ RpcRetryCallback(c)
  \/ \E f \in ForkId : c = <<"remote", f>> /\ RemoteTimesOut(f)
  \/ c = <<"remote", Self>> /\ SelfRemoteTimesOut
  \/ \E f \in Ref : c = <<"remote", f>> /\ RemoteFails(f)
  \/ \E f \in ForkId : c = <<"fetch", f>> /\ ToHereTimesOut(f)

UserCode ==
  \/ \E w \in Worker, f \in ForkId : CreateUserRRef(w, f)
  \/ CreateSelfRemote \/ CreateOwnerRRef
  \/ \E p, c \in ForkId, w \in Callees : ForkFromUser(p, c, w)
  \/ \E k \in local, c \in ForkId, w \in Callees : ForkFromOwner(k, c, w)
  \/ \E f \in ForkId : ToHere(f)
  \/ \E w \in Leavers : DelAllUsersAndUnforkedOwners(w)

\* Every reference of user code goes out of scope in the end.
OutOfScope == \/ \E f \in ForkId : Drop(f)
              \/ \E k \in local : DropOwner(k)

\* Nothing is on its way, and user code holds nothing (a fork may stay behind
\* whose call never starts, because the owner could not be asked).
Quiet ==
  /\ msgs = {} /\ assigning = {} /\ computing = {} /\ local = {} /\ \A f \in ForkId : ~Usable(f)
  /\ \A c \in Call : rpc[c].st \notin {"sent", "backoff"}

Finished == Quiet /\ UNCHANGED vars

Next ==
  \/ UserCode \/ OutOfScope \/ OwnerStep
  \/ \E m \in msgs : Receive(m) \/ Lose(m)
  \/ \E c \in Call : CallFails(c) \/ RetryExpiredRpc(c)
  \/ Finished

Spec == Init /\ [][Next]_vars

(***************************************************************************)
(* Messages arrive or their loss is noticed, the backoff of a retry ends,  *)
(* functions return, and user code drops its references in the end.        *)
(***************************************************************************)
Fairness ==
  /\ WF_vars(\E m \in msgs : Receive(m))
  /\ WF_vars(\E c \in Call : CallFails(c) \/ RetryExpiredRpc(c))
  /\ WF_vars(OwnerStep) /\ WF_vars(OutOfScope)

FairSpec == Spec /\ Fairness

------------------------------------------------------------------------------
(***************************************************************************)
(* Properties.                                                             *)
(***************************************************************************)
\* The references that count: a fork from the moment it is pickled until its
\* destructor has told the owner.  Not counted: the creator of an RRef whose
\* remote() timed out (using it is an error), a fork whose parent a worker gave
\* up waiting for at shutdown, any once the owner shuts down, when no user code
\* is left to use it, and any once the creator has shared its RRef before remote()
\* was answered.
References ==
  LET sent == {f \in ForkId : at[f] # NoWorker /\ (at[f] = Owner => Share(f) \in msgs)}
      gaveUp == {c \in pendingChildren : parent[c] \in deletedOnOwner}
      self == {f \in {Self} : rpc["remote", f].st = "sent"}
  IN  IF Owner \in shutdown \/ sharedEarly # {}
        THEN {} ELSE (sent \ (deletedOnOwner \cup timedOut \cup gaveUp)) \cup self

Stored == owners \in filled \/ \E w \in assigning \cup computing : w[2] = owners

Lifetime == INSTANCE RRefLifetime WITH stored <- Stored, refs <- References

\* The owner keeps the value while any reference to it exists, however messages
\* are delayed, reordered, lost and retried (delForkOfOwner never drops the last
\* fork too soon).
OwnerKeepsValue == Lifetime!Spec

\* G2 of the design: a UserRRef is not deleted on the owner while a child of it
\* is not confirmed (pendingChildren_ holds it), unless its worker gave up
\* waiting at shutdown.
ParentOutlivesPending ==
  \A f \in ForkId :
    /\ parent[f] \in deletedOnOwner
    /\ Share(f) \in msgs \/ f \in pendingUsers
    => at[parent[f]] \in shutdown

\* The internal assertions hold: addForkOfOwner finds no such fork, delPendingUser
\* and getPendingUser find theirs, getOwnerRRef(forceCreated) finds the OwnerRRef.
AssertsHold ==
  /\ \A w \in assigning : w[1] \notin forks
  /\ \A f \in ForkId, t \in {"remote", "fork_request"} :
       rpc[t, f].st \in {"sent", "backoff"} => f \in pendingUsers
  /\ rpc["remote", Self].st = "sent" => owners # 0

\* When nothing is on its way and user code holds nothing, the owner has forgotten
\* the RRef: no leak for checkRRefLeaks to report.
NothingLeaks ==
  Quiet => forks = {} /\ owners = 0 /\ pendingUsers = {} /\ pendingChildren = {}

\* to_here() on a UserRRef is answered.
FetchIsAnswered ==
  \A f \in ForkId : rpc["fetch", f].st = "sent" ~> rpc["fetch", f].st # "sent"

\* When user code has let go of every reference, the owner forgets the RRef.
OwnerForgets == <>[](forks = {} /\ owners = 0)
==============================================================================
