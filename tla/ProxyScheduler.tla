---------------------------- MODULE ProxyScheduler ----------------------------
(***************************************************************************)
(* tools/proxy_server.py, the proxy in front of prefill and decode         *)
(* deployments: SharedProxyScheduler, the requests that reserve load on    *)
(* it, the calls that add and remove instances, and the NodeListener       *)
(* thread.  A scheduler method holds a lock from beginning to end, and     *)
(* WorkerRuntime.schedule has no await inside its own lock, so a method,   *)
(* and whatever a coroutine does up to its next await, is one step.        *)
(*                                                                         *)
(* A key is a normalized host:port.  A server has one load: a prefiller    *)
(* the KV cache reserved on it, a decoder its active tokens (the code      *)
(* keeps both fields for both roles and uses one of each).  A request has  *)
(* one size for both, also when it is computed again.                      *)
(***************************************************************************)
EXTENDS Integers, Sequences, FiniteSets, Functions

CONSTANTS
    Keys,               \* addresses of instances
    Prefillers,         \* --prefiller-hosts and ports, in order
    Decoders,           \* --decoder-hosts and ports, in order
    Requests,
    Size,               \* Size[r]: the load request r reserves
    Adjustable,         \* the <<role, key>> that are added and removed
    MaxWaitingRetries,  \* --max-waiting-retries
    MaxRecomputes,      \* bound: how often a decoder gives a request back
    MaxAdjusts          \* bound: calls of /instances/add and /instances/remove

Roles == {"prefill", "decode"}
TaintPriority == 1000   \* TAINT_PRIORITY, above every load

ASSUME KeysAssumption ==
    /\ Prefillers \in Seq(Keys) /\ Decoders \in Seq(Keys)
    /\ Adjustable \subseteq Roles \X Keys
    /\ IsInjective(Prefillers) /\ IsInjective(Decoders)
ASSUME FiniteAssumption == IsFiniteSet(Keys) /\ IsFiniteSet(Requests)
ASSUME SizeAssumption   == Size \in [Requests -> Nat \ {0}]
ASSUME BoundsAssumption == {MaxWaitingRetries, MaxRecomputes, MaxAdjusts} \subseteq Nat

VARIABLES
    (* SharedProxyScheduler: one pool per role *)
    servers,        \* servers[role]: key -> [ordinal, seq, load]
    heap,           \* heap[role]: entries [prio, ordinal, seq, key], stale ones too
    tainted,        \* tainted[role]: keys isolated until the proxy is idle
    waiting,        \* waiting_nodes: key -> [role, retries]
    requestNum,     \* request_num
    ordinal,        \* the next ordinal
    (* requests and the listener thread *)
    req,            \* req[r]: [pc, prefiller, decoder, redo, releasedKV, recomputes]
    listener,       \* "sleep", "round", or "dead" after an exception
    todo,           \* what get_waiting_nodes returned and is not yet checked
    adjusts         \* calls made

poolVars == <<servers, heap, tainted>>
vars == <<poolVars, waiting, requestNum, ordinal, req, listener, todo, adjusts>>

NoKey == "none"

-----------------------------------------------------------------------------
(* dict[key] = value *)
With(dict, key, value) ==
    [k \in DOMAIN dict \cup {key} |-> IF k = key THEN value ELSE dict[k]]

(* A pool is [servers, heap, tainted] of one role. *)
Pool(role) == [servers |-> servers[role], heap |-> heap[role],
               tainted |-> tainted[role]]

(* _priority *)
Priority(pool, key) ==
    IF key \in pool.tainted THEN TaintPriority ELSE pool.servers[key].load

EntryOf(pool, key) == [prio    |-> Priority(pool, key),
                       ordinal |-> pool.servers[key].ordinal,
                       seq     |-> pool.servers[key].seq,
                       key     |-> key]

(* _reset_heap *)
Rebuilt(pool) ==
    [pool EXCEPT !.heap = {EntryOf(pool, key) : key \in DOMAIN pool.servers}]

(* _reset_heap(bump_seq=True) *)
Reset(pool) ==
    LET bumped == [key \in DOMAIN pool.servers |->
                      [pool.servers[key] EXCEPT !.seq = @ + 1]]
    IN  Rebuilt([pool EXCEPT !.servers = bumped])

(* _push_heap: a new entry, which makes the older ones of the key stale. *)
Pushed(pool, key) ==
    LET bumped == [pool EXCEPT !.servers[key].seq = @ + 1]
        pushed == [bumped EXCEPT !.heap = @ \cup {EntryOf(bumped, key)}]
    IN  IF Cardinality(pushed.heap) > 2 * Cardinality(DOMAIN pool.servers)
        THEN Rebuilt(pushed)
        ELSE pushed

(* The order of heapq on the tuples. *)
Below(e, f) ==
    \/ e.prio < f.prio
    \/ e.prio = f.prio /\ e.ordinal < f.ordinal
    \/ e.prio = f.prio /\ e.ordinal = f.ordinal /\ e.seq < f.seq

(* Mutant: an entry counts as long as its server is there. *)
ValidAtAnySeq(pool, e) == e.key \in DOMAIN pool.servers

Valid(pool, e) ==
    e.key \in DOMAIN pool.servers /\ pool.servers[e.key].seq = e.seq

(* _pop_valid: everything below the first valid entry is dropped with it. *)
ValidEntries(pool) == {e \in pool.heap : Valid(pool, e)}
CanPick(pool) == ValidEntries(pool) # {}
First(pool)   == CHOOSE e \in ValidEntries(pool) :
                     \A f \in ValidEntries(pool) \ {e} : Below(e, f)
Popped(pool)  == [pool EXCEPT !.heap = {e \in @ : Below(First(pool), e)}]

Emptied(pool) == [pool EXCEPT !.heap = {}]

WithLoad(pool, key, load) ==
    [pool EXCEPT !.servers[key].load = load]

(* _pick_server *)
Picked(pool, load) ==
    LET key == First(pool).key
    IN  Pushed(WithLoad(Popped(pool), key, pool.servers[key].load + load), key)

(* Mutant: what is released twice makes the load negative. *)
AtLeastZeroNot(n) == n

AtLeastZero(n) == IF n < 0 THEN 0 ELSE n

(* _release_load: reserved KV cache does not go below zero, tokens may. *)
Released(role, pool, key, load) ==
    IF key \notin DOMAIN pool.servers THEN pool
    ELSE LET left == pool.servers[key].load - load
         IN  Pushed(WithLoad(pool, key,
                       IF role = "prefill" THEN AtLeastZero(left) ELSE left), key)

(* _add_server_no_lock, for a key that has no server. *)
Added(pool, key, ord) ==
    Pushed([pool EXCEPT !.servers =
               With(@, key, [ordinal |-> ord, seq |-> 0, load |-> 0])], key)

Without(pool, ks) ==
    Reset([pool EXCEPT !.servers = Restrict(@, DOMAIN @ \ ks), !.tainted = @ \ ks])

SetPools(prefill, decode) ==
    /\ servers' = [prefill |-> prefill.servers, decode |-> decode.servers]
    /\ heap'    = [prefill |-> prefill.heap, decode |-> decode.heap]
    /\ tainted' = [prefill |-> prefill.tainted, decode |-> decode.tainted]

SetPool(role, pool) ==
    /\ servers' = [servers EXCEPT ![role] = pool.servers]
    /\ heap'    = [heap EXCEPT ![role] = pool.heap]
    /\ tainted' = [tainted EXCEPT ![role] = pool.tainted]

-----------------------------------------------------------------------------
NewRequest == [pc |-> "new", prefiller |-> NoKey, decoder |-> NoKey,
               redo |-> NoKey, releasedKV |-> FALSE, recomputes |-> 0]

(* The pool of the instances on the command line, with ordinals from `from'. *)
InitialPool(keys, from) ==
    Rebuilt([servers |-> [k \in Range(keys) |->
                             [ordinal |-> from + AntiFunction(keys)[k] - 1,
                              seq |-> 1, load |-> 0]],
             heap |-> {}, tainted |-> {}])

InitialPools ==
    [role \in Roles |-> IF role = "prefill" THEN InitialPool(Prefillers, 0)
                        ELSE InitialPool(Decoders, Len(Prefillers))]

Init ==
    /\ servers = [role \in Roles |-> InitialPools[role].servers]
    /\ heap    = [role \in Roles |-> InitialPools[role].heap]
    /\ tainted = [role \in Roles |-> {}]
    /\ waiting = << >>
    /\ requestNum = 0
    /\ ordinal = Len(Prefillers) + Len(Decoders)
    /\ req = [r \in Requests |-> NewRequest]
    /\ listener = "sleep"
    /\ todo = {}
    /\ adjusts = 0

(* begin_request, and up to the POST to the prefiller. *)
BeginRequest(r) ==
    /\ req[r].pc = "new"
    /\ CanPick(Pool("prefill"))
    /\ SetPool("prefill", Picked(Pool("prefill"), Size[r]))
    /\ requestNum' = requestNum + 1
    /\ req' = [req EXCEPT ![r].pc = "prefill",
                          ![r].prefiller = First(Pool("prefill")).key]
    /\ UNCHANGED <<waiting, ordinal, listener, todo, adjusts>>

(* No prefiller: _pop_valid has emptied the heap and raises. *)
RejectRequest(r) ==
    /\ req[r].pc = "new"
    /\ ~ CanPick(Pool("prefill"))
    /\ SetPool("prefill", Emptied(Pool("prefill")))
    /\ req' = [req EXCEPT ![r].pc = "done"]
    /\ UNCHANGED <<waiting, requestNum, ordinal, listener, todo, adjusts>>

(* finish_request, on the decoders' pool as it is by then *)
FinishRequest(r, kv, decoders) ==
    /\ SetPools(IF kv THEN Released("prefill", Pool("prefill"), req[r].prefiller, Size[r])
                ELSE Pool("prefill"),
                Released("decode", decoders, req[r].decoder, Size[r]))
    /\ requestNum' = AtLeastZero(requestNum - 1)
    /\ req' = [req EXCEPT ![r].pc = "done"]

(* The prefiller answers; pick_decoder; the stream begins. *)
PrefillAnswered(r) ==
    /\ req[r].pc = "prefill"
    /\ CanPick(Pool("decode"))
    /\ SetPool("decode", Picked(Pool("decode"), Size[r]))
    /\ req' = [req EXCEPT ![r].pc = "stream",
                          ![r].decoder = First(Pool("decode")).key]
    /\ UNCHANGED <<waiting, requestNum, ordinal, listener, todo, adjusts>>

(* All attempts failed: _abort_prefill_selection of an initial request. *)
PrefillFailed(r) ==
    /\ req[r].pc = "prefill"
    /\ FinishRequest(r, TRUE, Pool("decode"))
    /\ UNCHANGED <<waiting, ordinal, listener, todo, adjusts>>

(* The prefiller answers and there is no decoder: aborted as well. *)
NoDecoder(r) ==
    /\ req[r].pc = "prefill"
    /\ ~ CanPick(Pool("decode"))
    /\ FinishRequest(r, TRUE, Emptied(Pool("decode")))
    /\ UNCHANGED <<waiting, ordinal, listener, todo, adjusts>>

(* The client disconnects while the prefiller works: with_cancellation cancels
   the handler, whose except clauses are for Exception, which CancelledError
   is not.  Nothing is given back, as when the answer cannot be parsed. *)
PrefillCancelled(r) ==
    /\ req[r].pc = "prefill"
    /\ req' = [req EXCEPT ![r].pc = "lost"]
    /\ UNCHANGED <<poolVars, waiting, requestNum, ordinal, listener, todo, adjusts>>

(* release_prefill_kv_once, at the first chunk. *)
FirstChunk(r) ==
    /\ req[r].pc = "stream"
    /\ ~ req[r].releasedKV
    /\ SetPool("prefill",
               Released("prefill", Pool("prefill"), req[r].prefiller, Size[r]))
    /\ req' = [req EXCEPT ![r].releasedKV = TRUE]
    /\ UNCHANGED <<waiting, requestNum, ordinal, listener, todo, adjusts>>

(* A chunk with stop_reason "recomputed": release_prefill_kv_once comes first,
   for the chunk is one, then reassign_instances releases the KV cache and the
   decoder and reserves a prefiller again, up to its POST.  The servers of a
   counted request are not removed, so there is a prefiller to pick. *)
Recomputed(r) ==
    /\ req[r].pc = "stream"
    /\ req[r].recomputes < MaxRecomputes
    /\ LET give(pool) == Released("prefill", pool, req[r].prefiller, Size[r])
           once == IF req[r].releasedKV THEN Pool("prefill")
                   ELSE give(Pool("prefill"))
           prefill == give(once)
       IN  /\ CanPick(prefill)
           /\ SetPools(Picked(prefill, Size[r]),
                       Released("decode", Pool("decode"), req[r].decoder, Size[r]))
           /\ req' = [req EXCEPT ![r].pc = "redo",
                                 ![r].redo = First(prefill).key,
                                 ![r].releasedKV = TRUE,
                                 ![r].recomputes = @ + 1]
    /\ UNCHANGED <<waiting, requestNum, ordinal, listener, todo, adjusts>>

(* assign_instances returns the new InstanceInfo. *)
RedoAnswered(r) ==
    /\ req[r].pc = "redo"
    /\ CanPick(Pool("decode"))
    /\ SetPool("decode", Picked(Pool("decode"), Size[r]))
    /\ req' = [req EXCEPT ![r].pc = "stream",
                          ![r].prefiller = req[r].redo,
                          ![r].decoder = First(Pool("decode")).key,
                          ![r].redo = NoKey,
                          ![r].releasedKV = FALSE]
    /\ UNCHANGED <<waiting, requestNum, ordinal, listener, todo, adjusts>>

(* Mutant: a recomputation that fails is aborted like an initial request. *)
CountAfterAbortTwice(n) == AtLeastZero(n - 1)

(* _abort_prefill_selection(is_initial_request=False) leaves request_num. *)
CountAfterAbort(n) == n

(* reassign_instances raises, with the old InstanceInfo in place: the new
   prefiller's KV cache is given back, unless the task was cancelled, and the
   finally clause finishes the request with the old decoder. *)
RedoFailed(r, cancelled) ==
    /\ req[r].pc = "redo"
    /\ SetPools(IF cancelled THEN Pool("prefill")
                ELSE Released("prefill", Pool("prefill"), req[r].redo, Size[r]),
                Released("decode", Pool("decode"), req[r].decoder, Size[r]))
    /\ requestNum' = AtLeastZero((IF cancelled THEN requestNum
                                  ELSE CountAfterAbort(requestNum)) - 1)
    /\ req' = [req EXCEPT ![r].pc = "done"]
    /\ UNCHANGED <<waiting, ordinal, listener, todo, adjusts>>

(* The stream ends, fails or is cancelled: the finally clause. *)
StreamEnds(r) ==
    /\ req[r].pc = "stream"
    /\ FinishRequest(r, ~ req[r].releasedKV, Pool("decode"))
    /\ UNCHANGED <<waiting, ordinal, listener, todo, adjusts>>

-----------------------------------------------------------------------------
(* add_instances, of one instance. *)
AddInstance(role, key) ==
    /\ adjusts < MaxAdjusts
    /\ adjusts' = adjusts + 1
    /\ waiting' = IF key \in DOMAIN servers[role] \cup DOMAIN waiting THEN waiting
                  ELSE With(waiting, key, [role |-> role, retries |-> 0])
    /\ UNCHANGED <<poolVars, requestNum, ordinal, req, listener, todo>>

MustDrain == requestNum > 0

(* remove_instances with requests in progress: isolate. *)
TaintInstances(role, ks) ==
    /\ adjusts < MaxAdjusts
    /\ MustDrain
    /\ adjusts' = adjusts + 1
    /\ SetPool(role, Reset([Pool(role) EXCEPT !.tainted = @ \cup ks]))
    /\ UNCHANGED <<waiting, requestNum, ordinal, req, listener, todo>>

(* remove_instances when the proxy is idle. *)
RemoveInstances(role, ks) ==
    /\ adjusts < MaxAdjusts
    /\ ~ MustDrain
    /\ adjusts' = adjusts + 1
    /\ SetPool(role, IF ks \cap DOMAIN servers[role] # {}
                     THEN Without(Pool(role), ks)
                     ELSE [Pool(role) EXCEPT !.tainted = @ \ ks])
    /\ waiting' = Restrict(waiting, DOMAIN waiting \ ks)
    /\ UNCHANGED <<requestNum, ordinal, req, listener, todo>>

-----------------------------------------------------------------------------
(* The listener takes a copy of the waiting nodes for one round. *)
StartRound ==
    /\ listener = "sleep"
    /\ todo' = {[key |-> k, role |-> waiting[k].role, retries |-> waiting[k].retries] :
                    k \in DOMAIN waiting}
    /\ listener' = "round"
    /\ UNCHANGED <<poolVars, waiting, requestNum, ordinal, req, adjusts>>

(* activate_waiting_instance.  A key that was isolated while it waited has no
   server: _push_heap raises KeyError in the listener's thread. *)
Activate(node) ==
    LET pool   == Pool(node.role)
        clean  == [pool EXCEPT !.tainted = @ \ {node.key}]
        exists == node.key \in DOMAIN pool.servers
        wasTainted == node.key \in pool.tainted
    IN  /\ listener = "round"
        /\ node \in todo
        /\ todo' = todo \ {node}
        /\ waiting' = Restrict(waiting, DOMAIN waiting \ {node.key})
        /\ SetPool(node.role, IF wasTainted /\ exists THEN Pushed(clean, node.key)
                              ELSE IF wasTainted \/ exists THEN clean
                              ELSE Added(pool, node.key, ordinal))
        /\ ordinal'  = IF wasTainted \/ exists THEN ordinal ELSE ordinal + 1
        /\ listener' = IF wasTainted /\ ~ exists THEN "dead" ELSE listener
        /\ UNCHANGED <<requestNum, req, adjusts>>

(* Mutant: the number of attempts is written back as it was read. *)
AttemptsKept(node) == node.retries

Attempts(node) == node.retries + 1

(* The check failed: drop_waiting_instance or mark_waiting_retry. *)
CheckFails(node) ==
    /\ listener = "round"
    /\ node \in todo
    /\ todo' = todo \ {node}
    /\ waiting' = IF Attempts(node) >= MaxWaitingRetries
                  THEN Restrict(waiting, DOMAIN waiting \ {node.key})
                  ELSE IF node.key \in DOMAIN waiting
                  THEN [waiting EXCEPT ![node.key].retries = Attempts(node)]
                  ELSE waiting
    /\ UNCHANGED <<poolVars, requestNum, ordinal, req, listener, adjusts>>

Drained == requestNum = 0

(* finalize_tainted_instances, at the end of a round. *)
Finalize ==
    /\ listener = "round"
    /\ todo = {}
    /\ LET after(role) == IF Drained /\ tainted[role] # {}
                          THEN Without(Pool(role), tainted[role])
                          ELSE Pool(role)
       IN  SetPools(after("prefill"), after("decode"))
    /\ listener' = "sleep"
    /\ UNCHANGED <<waiting, requestNum, ordinal, req, todo, adjusts>>

-----------------------------------------------------------------------------
Request(r) ==
    \/ BeginRequest(r) \/ RejectRequest(r)
    \/ PrefillAnswered(r) \/ PrefillFailed(r) \/ NoDecoder(r) \/ PrefillCancelled(r)
    \/ FirstChunk(r) \/ Recomputed(r) \/ RedoAnswered(r)
    \/ \E cancelled \in BOOLEAN : RedoFailed(r, cancelled)
    \/ StreamEnds(r)

Adjust ==
    \E a \in Adjustable :
        \/ AddInstance(a[1], a[2])
        \/ TaintInstances(a[1], {a[2]})
        \/ RemoveInstances(a[1], {a[2]})

Listener == StartRound \/ (\E node \in todo : Activate(node) \/ CheckFails(node)) \/ Finalize

Next == (\E r \in Requests : Request(r)) \/ Adjust \/ Listener

Spec == Init /\ [][Next]_vars

InProgress(r) == req[r].pc \in {"prefill", "stream", "redo"}
Advances(r)   == req'[r] # req[r]
Listens       == <<listener', todo'>> # <<listener, todo>>

(* A request in progress gets an answer, a failure or an end from its servers,
   and the listener's thread runs while it lives: weak fairness of Request(r)
   and Listener, with what enables them written out (a request in progress
   can always fail, a live listener can always go on), which spares TLC the
   evaluation of ENABLED. *)
FairSpec ==
    /\ Spec
    /\ \A r \in Requests : []<> ~ InProgress(r) \/ []<><<Advances(r)>>_vars
    /\ []<>(listener = "dead") \/ []<><<Listens>>_vars

-----------------------------------------------------------------------------
Lost(r) == req[r].pc = "lost"

(* The type invariant. *)
TypeOK ==
    /\ \A role \in Roles :
          /\ DOMAIN servers[role] \subseteq Keys
          /\ \A k \in DOMAIN servers[role] :
                servers[role][k] \in [ordinal : 0 .. ordinal - 1, seq : Nat, load : Int]
          /\ \A k \in DOMAIN servers.prefill : servers.prefill[k].load >= 0
          /\ \A e \in heap[role] : e.key \in Keys /\ {e.prio, e.ordinal, e.seq} \subseteq Int
          /\ Cardinality(heap[role]) <= 2 * Cardinality(Keys)
          /\ tainted[role] \subseteq Keys
    /\ DOMAIN waiting \subseteq Keys
    /\ \A k \in DOMAIN waiting :
          waiting[k] \in [role : Roles, retries : 0 .. MaxWaitingRetries]
    /\ requestNum \in 0 .. Cardinality(Requests)
    /\ req \in [Requests -> [pc : {"new", "prefill", "stream", "redo", "done", "lost"},
                             prefiller : Keys \cup {NoKey}, decoder : Keys \cup {NoKey},
                             redo : Keys \cup {NoKey}, releasedKV : BOOLEAN,
                             recomputes : 0 .. MaxRecomputes]]
    /\ listener \in {"sleep", "round", "dead"}
    /\ todo \subseteq [key : Keys, role : Roles, retries : Nat]
    /\ adjusts \in 0 .. MaxAdjusts

(* Entries of the heap are never updated, only outdated by a sequence number
   that starts again when an instance is removed and comes back: whatever was
   pushed and dropped before, the next request goes to a server of least
   current load, and to an isolated one only if all are. *)
LeastLoadedFirst ==
    \A role \in Roles :
        LET pool == Pool(role)
        IN  DOMAIN pool.servers # {} =>
              /\ CanPick(pool)
              /\ \A k \in DOMAIN pool.servers :
                    Priority(pool, First(pool).key) <= Priority(pool, k)

(* request_num stands for the use of every server: it never counts fewer than
   the requests in progress, whatever ends them and however often they are
   computed again, so that no server is removed below a request (whose
   get_client would raise, and leave everything reserved). *)
InUseKept ==
    /\ requestNum >= Cardinality({r \in Requests : InProgress(r)})
    /\ \A r \in Requests :
          /\ InProgress(r) => req[r].prefiller \in DOMAIN servers.prefill
          /\ req[r].pc \in {"stream", "redo"} => req[r].decoder \in DOMAIN servers.decode
          /\ req[r].pc = "redo" => req[r].redo \in DOMAIN servers.prefill

(* While the listener's thread lives, an instance that waits to be added is
   added or given up after so many attempts, which are written back from a copy
   that is older.  An isolated one is removed if the proxy is idle from some
   time on: the code waits for all requests, not for those of the instance, and
   one that a disconnected client left counted keeps it for ever.  Nothing is
   said of what an instance does that is removed while the listener's copy has
   it: it may be activated afterwards. *)
Settles ==
    /\ \A k \in Keys : k \in DOMAIN waiting ~> k \notin DOMAIN waiting \/ listener = "dead"
    /\ <>[](requestNum = 0) =>
          \A k \in Keys, role \in Roles :
              k \in tainted[role] ~>
                  \/ k \notin tainted[role] /\ k \notin DOMAIN servers[role]
                  \/ listener = "dead"
=============================================================================
