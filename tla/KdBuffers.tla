----------------------------- MODULE KdBuffers -----------------------------
(***************************************************************************)
(* The buffers of one open file of the kernel driver (sw/kd): creation,    *)
(* destruction and mapping of buffers, creation and update of command      *)
(* buffers, their binding counts, and the destruction of the context when  *)
(* the file is released.                                                   *)
(*                                                                         *)
(* Files share no buffers: buffers_idr and its mutex belong to a context.  *)
(* One action is one critical section of buffers_idr_lock, or one access   *)
(* made while a buffer is locked.  A buffer is a memory object, its id a   *)
(* slot of buffers_idr: an id is reused as soon as its slot is empty, an   *)
(* object only after kfree.  The job queue is abstracted to the set of     *)
(* command buffers that have a job (see KdJobs).                           *)
(***************************************************************************)
EXTENDS Integers, Sequences, FiniteSets

CONSTANTS
    Thread,      \* threads of the process that issue ioctls
    Object,      \* memory objects: struct vxe_buffer, struct vxe_cmd_buffer
    NumIds,      \* MAX_BUFFERS_PER_CTX
    MaxRes,      \* bound: bindings of a command buffer
    MapMode,     \* "once": the client maps unmapped buffers only, or "any"
    MaxBinds,    \* bound: an update may bring buffers that are too small while
                 \* they have at most MaxBinds bindings (0: it never does)
    CloseMode    \* "tidy": the client destroys its command buffers, or "any"

ASSUME MembersAssumption == /\ IsFiniteSet(Thread) /\ IsFiniteSet(Object)
                            /\ "none" \notin Object
ASSUME BoundsAssumption == /\ NumIds \in Nat \ {0} /\ MaxRes \in Nat \ {0}
                           /\ MaxBinds \in Nat
ASSUME ModesAssumption == /\ MapMode \in {"once", "any"}
                          /\ CloseMode \in {"tidy", "any"}

VARIABLES
    idr,         \* vxe_context.buffers_idr
    buf,         \* the memory objects
    idr_holder,  \* whom buffers_idr_lock was left to: a thread, or None
    running,     \* command buffers with a job that is queued or executed
    pc, arg,     \* threads: where they are, and their local variables
    ctx_state,   \* life of the context
    next_id,     \* vxe_context_destroy: the ids below it were visited
    lost         \* history: bindings of a buffer that refused updates dropped

ctxVars == <<ctx_state, next_id, lost>>
vars == <<idr, buf, idr_holder, running, pc, arg, ctxVars>>

None == "none"
Ids == 0..(NumIds - 1)
Lists == UNION {[1..n -> Object] : n \in 0..MaxRes}
Flags == {"mapped", "locked", "cmdbuf"}

\* prog is what the SETRx commands in the storage of a command buffer address;
\* has_res says that the pointer res is not NULL.
Free == [live |-> FALSE, flags |-> {}, bind_count |-> 0,
         has_res |-> FALSE, res |-> << >>, prog |-> << >>]
\* kzalloc, then the fields vxe_buffer_create stores.
New(kind) == [live |-> TRUE, flags |-> {"locked"} \cup kind, bind_count |-> 1,
              has_res |-> FALSE, res |-> << >>, prog |-> << >>]
NoArg == [obj |-> None, id |-> 0, bufs |-> << >>]

Creating == {"create_map", "create_exit"}
CmdCreating == {"cc_bound", "cc_move", "cc_exit"}
Updating == {"up_check", "up_swap", "up_unbind", "up_exit"}
ThreadPC == {"idle", "destroy", "destroy_raw"}
              \cup Creating \cup CmdCreating \cup Updating

Init ==
    /\ idr = [i \in Ids |-> None]
    /\ buf = [o \in Object |-> Free]
    /\ idr_holder = None
    /\ running = {}
    /\ pc = [t \in Thread |-> "idle"]
    /\ arg = [t \in Thread |-> NoArg]
    /\ ctx_state = "open" /\ next_id = 0
    /\ lost = [o \in Object |-> 0]

-----------------------------------------------------------------------------
(* Helpers.                                                                *)

Count(list, o) == Cardinality({i \in DOMAIN list : list[i] = o})

Lock(r) == [r EXCEPT !.flags = @ \cup {"locked"}]
Unlock(r) == [r EXCEPT !.flags = @ \ {"locked"}]

\* vxe_buffer_bind_unlocked: the flag is set when the count leaves zero.
Bind(f, list) ==
    [o \in Object |->
       LET n == Count(list, o)
           r == [f[o] EXCEPT !.bind_count = @ + n]
       IN  IF n > 0 /\ f[o].bind_count = 0 THEN Lock(r) ELSE r]

UnbindKeepsFlag(f, list) ==
    [o \in Object |->
       LET n == Count(list, o)
       IN  [f[o] EXCEPT !.bind_count = IF @ > n THEN @ - n ELSE 0]]

\* vxe_buffer_unbind_unlocked: a buffer with no binding is skipped.
Unbind(f, list) ==
    [o \in Object |->
       LET n == Count(list, o)
           r == [f[o] EXCEPT !.bind_count = IF @ > n THEN @ - n ELSE 0]
       IN  IF f[o].bind_count > 0 /\ r.bind_count = 0 THEN Unlock(r) ELSE r]

\* RUNPGM and update take an unlocked command buffer for themselves.
Take(f, o) == [f EXCEPT ![o] = Lock([@ EXCEPT !.bind_count = 1])]

Found(id) == idr[id] # None
IsCmd(o) == "cmdbuf" \in buf[o].flags
IsLocked(o) == "locked" \in buf[o].flags
IsMapped(o) == "mapped" \in buf[o].flags

\* The buffers that a list of ids names, when all are there and none is a
\* command buffer.
Bindable(ids) == \A i \in DOMAIN ids : Found(ids[i]) /\ ~IsCmd(idr[ids[i]])
Named(ids) == [i \in DOMAIN ids |-> idr[ids[i]]]
IdLists == UNION {[1..n -> Ids] : n \in 0..MaxRes}

LockFree == idr_holder = None

Goes(t, next) == pc' = [pc EXCEPT ![t] = next]
Step(t, from, next) == pc[t] = from /\ LockFree /\ Goes(t, next)
\* A handler starts: the file is open.
Enter(t, next) == ctx_state = "open" /\ Step(t, "idle", next)
Return(t) == Goes(t, "idle") /\ arg' = [arg EXCEPT ![t] = NoArg]

-----------------------------------------------------------------------------
(* vxe_buffer_create: kzalloc an object and store it in the lowest free id.*)

FreeIds == {i \in Ids : idr[i] = None}
LowestFree == CHOOSE i \in FreeIds : \A j \in FreeIds : i <= j

AllocUnlocked(t, o, kind) ==
    /\ ~buf[o].live
    /\ FreeIds # {}
    /\ idr' = [idr EXCEPT ![LowestFree] = o]
    /\ buf' = [buf EXCEPT ![o] = [Free EXCEPT !.live = TRUE, !.flags = kind]]
    /\ arg' = [arg EXCEPT ![t].obj = o, ![t].id = LowestFree]

Alloc(t, o, kind) ==
    /\ ~buf[o].live
    /\ FreeIds # {}
    /\ idr' = [idr EXCEPT ![LowestFree] = o]
    /\ buf' = [buf EXCEPT ![o] = New(kind)]
    /\ arg' = [arg EXCEPT ![t].obj = o, ![t].id = LowestFree]

-----------------------------------------------------------------------------
(* Destruction.                                                            *)

\* vxe_buffer_destroy, first critical section: by id, so it takes whatever
\* buffer has the id now.
DestroyId(t, id) ==
    IF Found(id) /\ ~IsLocked(idr[id])
    THEN /\ Goes(t, "destroy_raw")
         /\ idr' = [idr EXCEPT ![id] = None]
         /\ arg' = [arg EXCEPT ![t] = [NoArg EXCEPT !.obj = idr[id]]]
    ELSE Return(t) /\ UNCHANGED idr

\* vxe_buffer_destroy_raw_unlocked: a command buffer first unbinds its
\* resources.
DestroyRaw(f, o) ==
    [(IF "cmdbuf" \in f[o].flags
      THEN Unbind(f, f[o].res) ELSE f) EXCEPT ![o] = Free]

\* BUFFER_DESTROY ioctl
BufferDestroy(t, id) ==
    /\ ctx_state = "open" /\ pc[t] = "idle" /\ LockFree
    /\ DestroyId(t, id)
    /\ UNCHANGED <<buf, idr_holder, running, ctxVars>>

\* an error path that destroys what it had created, by the id it kept
BufferDestroyOwn(t) ==
    /\ pc[t] = "destroy" /\ LockFree
    /\ DestroyId(t, arg[t].id)
    /\ UNCHANGED <<buf, idr_holder, running, ctxVars>>

\* the second critical section
BufferFree(t) ==
    /\ pc[t] = "destroy_raw" /\ LockFree
    /\ buf' = DestroyRaw(buf, arg[t].obj)
    /\ Return(t)
    /\ UNCHANGED <<idr, idr_holder, running, ctxVars>>

-----------------------------------------------------------------------------
(* Mapping to user space.                                                  *)

\* vxe_buffer_mmap of a buffer that is mapped already returns with the lock.
Mmap(t, o) ==
    IF IsMapped(o)
    THEN idr_holder' = t /\ UNCHANGED buf
    ELSE /\ buf' = [buf EXCEPT ![o].flags = @ \cup {"mapped"}]
         /\ UNCHANGED idr_holder

BufferMap(t, id) ==
    /\ ctx_state = "open" /\ pc[t] = "idle" /\ LockFree
    /\ Found(id) /\ ~IsCmd(idr[id])
    /\ MapMode = "once" =>
          /\ ~IsMapped(idr[id])
          /\ \A u \in Thread : ~(pc[u] = "create_map" /\ arg[u].obj = idr[id])
    /\ Mmap(t, idr[id])
    /\ UNCHANGED <<idr, running, pc, arg, ctxVars>>

BufferUnmap(t, id) ==
    /\ ctx_state = "open" /\ pc[t] = "idle" /\ LockFree
    /\ Found(id) /\ ~IsCmd(idr[id]) /\ IsMapped(idr[id])
    /\ buf' = [buf EXCEPT ![idr[id]].flags = @ \ {"mapped"}]
    /\ UNCHANGED <<idr, idr_holder, running, pc, arg, ctxVars>>

-----------------------------------------------------------------------------
(* BUFFER_CREATE ioctl.                                                    *)

\* with and without VXE_BUFFER_CREATE_FLAG_MAP
BufferCreate(t, o) ==
    /\ \E next \in Creating : Enter(t, next)
    /\ Alloc(t, o, {})
    /\ UNCHANGED <<idr_holder, running, ctxVars>>

CreateMap(t) ==
    /\ Step(t, "create_map", "create_exit")
    /\ Mmap(t, arg[t].obj)
    /\ UNCHANGED <<idr, running, arg, ctxVars>>

\* Both exits give up the creator's binding.
CreateExit(t) ==
    /\ pc[t] = "create_exit" /\ LockFree
    /\ buf' = Unbind(buf, <<arg[t].obj>>)
    /\ Return(t)
    /\ UNCHANGED <<idr, idr_holder, running, ctxVars>>

\* err_destroy_buf: mapping or copy_to_user failed
CreateUndo(t) ==
    /\ pc[t] \in Creating /\ LockFree
    /\ buf' = Unbind(buf, <<arg[t].obj>>)
    /\ Goes(t, "destroy")
    /\ arg' = [arg EXCEPT ![t].obj = None]
    /\ UNCHANGED <<idr, idr_holder, running, ctxVars>>

-----------------------------------------------------------------------------
(* CMD_BUFFER_CREATE ioctl.                                                *)

\* find and bind the resources
CmdBind(t, ids) ==
    /\ Enter(t, "cc_bound")
    /\ Bindable(ids)
    /\ buf' = Bind(buf, Named(ids))
    /\ arg' = [arg EXCEPT ![t].bufs = Named(ids)]
    /\ UNCHANGED <<idr, idr_holder, running, ctxVars>>

\* vxe_prog_assemble or vxe_buffer_create failed: unbind the resources
CmdAbort(t) ==
    /\ pc[t] = "cc_bound" /\ LockFree
    /\ buf' = Unbind(buf, arg[t].bufs)
    /\ Return(t)
    /\ UNCHANGED <<idr, idr_holder, running, ctxVars>>

\* vxe_buffer_create of the command buffer
CmdAlloc(t, o) ==
    /\ Step(t, "cc_bound", "cc_move")
    /\ Alloc(t, o, {"cmdbuf"})
    /\ UNCHANGED <<idr_holder, running, ctxVars>>

\* vxe_prog_move_to_cbuf: the command buffer owns program and resources
CmdMove(t) ==
    /\ Step(t, "cc_move", "cc_exit")
    /\ buf' = [buf EXCEPT ![arg[t].obj].has_res = TRUE,
                          ![arg[t].obj].res = arg[t].bufs,
                          ![arg[t].obj].prog = arg[t].bufs]
    /\ arg' = [arg EXCEPT ![t].bufs = << >>]
    /\ UNCHANGED <<idr, idr_holder, running, ctxVars>>

\* unbind the command buffer; destroy it when copy_to_user failed
CmdExit(t) ==
    /\ pc[t] = "cc_exit" /\ LockFree
    /\ buf' = Unbind(buf, <<arg[t].obj>>)
    /\ \/ Return(t)
       \/ Goes(t, "destroy") /\ arg' = [arg EXCEPT ![t].obj = None]
    /\ UNCHANGED <<idr, idr_holder, running, ctxVars>>

-----------------------------------------------------------------------------
(* RUNPGM, and the scheduler's release of the command buffer.              *)

RunpgmLocked(t, id) ==
    /\ ctx_state = "open" /\ pc[t] = "idle" /\ LockFree
    /\ Found(id) /\ IsCmd(idr[id])
    /\ buf' = Take(buf, idr[id])
    /\ running' = running \cup {idr[id]}
    /\ UNCHANGED <<idr, idr_holder, pc, arg, ctxVars>>

Runpgm(t, id) ==
    /\ ctx_state = "open" /\ pc[t] = "idle" /\ LockFree
    /\ Found(id) /\ IsCmd(idr[id]) /\ ~IsLocked(idr[id])
    /\ buf' = Take(buf, idr[id])
    /\ running' = running \cup {idr[id]}
    /\ UNCHANGED <<idr, idr_holder, pc, arg, ctxVars>>

JobDone(o) ==
    /\ o \in running /\ LockFree
    /\ buf' = Unbind(buf, <<o>>)
    /\ running' = running \ {o}
    /\ UNCHANGED <<idr, idr_holder, pc, arg, ctxVars>>

-----------------------------------------------------------------------------
(* CMD_BUFFER_UPDATE ioctl.                                                *)

UpdateTake(t, id) ==
    /\ Enter(t, "up_check")
    /\ Found(id) /\ IsCmd(idr[id]) /\ ~IsLocked(idr[id])
    /\ buf' = Take(buf, idr[id])
    /\ arg' = [arg EXCEPT ![t].obj = idr[id]]
    /\ UNCHANGED <<idr, idr_holder, running, ctxVars>>

\* a wrong number of bindings, a failed allocation or copy, or a bad id
UpdateRefuse(t) ==
    /\ pc[t] = "up_check"
    /\ Goes(t, "up_exit")
    /\ UNCHANGED <<idr, buf, idr_holder, running, arg, ctxVars>>

\* find and bind the new resources
UpdateBind(t, ids) ==
    /\ Step(t, "up_check", "up_swap")
    /\ Len(ids) = Len(buf[arg[t].obj].res)
    /\ Bindable(ids)
    /\ buf' = Bind(buf, Named(ids))
    /\ arg' = [arg EXCEPT ![t].bufs = Named(ids)]
    /\ UNCHANGED <<idr, idr_holder, running, ctxVars>>

UpdateSwapUnpatched(t) ==
    LET o == arg[t].obj
    IN  /\ pc[t] = "up_swap"
        /\ buf' = [buf EXCEPT ![o].res = arg[t].bufs]
        /\ arg' = [arg EXCEPT ![t].bufs = buf[o].res]
        /\ Goes(t, "up_unbind")
        /\ UNCHANGED <<idr, idr_holder, running, ctxVars>>

\* vxe_prog_swap_res patches the program and exchanges the lists, ...
UpdateSwap(t) ==
    LET o == arg[t].obj
    IN  /\ pc[t] = "up_swap"
        /\ buf' = [buf EXCEPT ![o].res = arg[t].bufs, ![o].prog = arg[t].bufs]
        /\ arg' = [arg EXCEPT ![t].bufs = buf[o].res]
        /\ Goes(t, "up_unbind")
        /\ UNCHANGED <<idr, idr_holder, running, ctxVars>>

\* ... or refuses a buffer that is too small, and the list is just freed
UpdateSwapFails(t) ==
    /\ pc[t] = "up_swap"
    /\ arg[t].bufs # << >>
    /\ \A i \in DOMAIN arg[t].bufs : buf[arg[t].bufs[i]].bind_count <= MaxBinds
    /\ arg' = [arg EXCEPT ![t].bufs = << >>]
    /\ Goes(t, "up_exit")
    /\ lost' = [o \in Object |-> lost[o] + Count(arg[t].bufs, o)]
    /\ UNCHANGED <<idr, buf, idr_holder, running, ctx_state, next_id>>

\* unbind the old resources
UpdateUnbind(t) ==
    /\ Step(t, "up_unbind", "up_exit")
    /\ buf' = Unbind(buf, arg[t].bufs)
    /\ arg' = [arg EXCEPT ![t].bufs = << >>]
    /\ UNCHANGED <<idr, idr_holder, running, ctxVars>>

UpdateExit(t) ==
    /\ pc[t] = "up_exit" /\ LockFree
    /\ buf' = Unbind(buf, <<arg[t].obj>>)
    /\ Return(t)
    /\ UNCHANGED <<idr, idr_holder, running, ctxVars>>

-----------------------------------------------------------------------------
(* The file is released when no handler is inside it; vxe_context_destroy  *)
(* waits for its jobs and frees every buffer, in the order of ids.         *)

Close ==
    /\ ctx_state = "open" /\ LockFree
    /\ \A t \in Thread : pc[t] = "idle"
    /\ running = {}
    /\ CloseMode = "tidy" => \A i \in Ids : Found(i) => ~IsCmd(idr[i])
    /\ ctx_state' = "closing"
    /\ next_id' = 0
    /\ UNCHANGED <<idr, buf, idr_holder, running, pc, arg, lost>>

CloseFree ==
    /\ ctx_state = "closing" /\ next_id \in Ids
    /\ buf' = IF Found(next_id) THEN DestroyRaw(buf, idr[next_id]) ELSE buf
    /\ next_id' = next_id + 1
    /\ UNCHANGED <<idr, idr_holder, running, pc, arg, ctx_state, lost>>

\* idr_destroy and kfree(ctx); the next open starts with a new context
CloseEnd ==
    /\ ctx_state = "closing" /\ next_id = NumIds
    /\ idr' = [i \in Ids |-> None]
    /\ ctx_state' = "open" /\ next_id' = 0
    /\ lost' = [o \in Object |-> 0]
    /\ UNCHANGED <<buf, idr_holder, running, pc, arg>>

-----------------------------------------------------------------------------
Handler(t) ==
    \/ BufferDestroyOwn(t) \/ BufferFree(t)
    \/ CreateMap(t) \/ CreateExit(t) \/ CreateUndo(t)
    \/ CmdAbort(t) \/ (\E o \in Object : CmdAlloc(t, o)) \/ CmdMove(t) \/ CmdExit(t)
    \/ UpdateRefuse(t) \/ (\E ids \in IdLists : UpdateBind(t, ids))
    \/ UpdateSwap(t) \/ UpdateSwapFails(t) \/ UpdateUnbind(t) \/ UpdateExit(t)

Client(t) ==
    \/ \E o \in Object : BufferCreate(t, o)
    \/ \E id \in Ids : \/ BufferDestroy(t, id)
                       \/ BufferMap(t, id)
                       \/ BufferUnmap(t, id)
                       \/ Runpgm(t, id)
                       \/ UpdateTake(t, id)
    \/ \E ids \in IdLists : CmdBind(t, ids)

Next ==
    \/ \E t \in Thread : Handler(t) \/ Client(t)
    \/ \E o \in Object : JobDone(o)
    \/ Close \/ CloseFree \/ CloseEnd

Spec == Init /\ [][Next]_vars

-----------------------------------------------------------------------------
(* Properties.                                                             *)

Live == {o \in Object : buf[o].live}
Programs == {o \in Live : buf[o].has_res}

\* The bindings of a buffer: places in the resource lists of programs and of
\* handlers, the handler that creates or updates it, and its job.
Owning == Creating \cup {"cc_move", "cc_exit"} \cup Updating
Places(lists, o) ==
    {p \in (DOMAIN lists) \X (1..MaxRes) :
       p[2] \in DOMAIN lists[p[1]] /\ lists[p[1]][p[2]] = o}
InPrograms(o) == Places([c \in Programs |-> buf[c].res], o)
InHandlers(o) == Places([t \in Thread |-> arg[t].bufs], o)
Owners(o) == {t \in Thread : pc[t] \in Owning /\ arg[t].obj = o}
Bindings(o) == Cardinality(InPrograms(o)) + Cardinality(InHandlers(o))
                 + Cardinality(Owners(o)) + Cardinality({o} \cap running)

\* bind_count is the number of the users of a buffer, and the LOCKED flag says
\* that there is one: bind, unbind, create, update, destroy and the error paths
\* of the ioctls balance in every interleaving, but for the one path that drops
\* the bindings of a refused update.
BindCounts ==
    \A o \in Live : /\ buf[o].bind_count = Bindings(o) + lost[o]
                    /\ IsLocked(o) <=> buf[o].bind_count > 0

\* A buffer is in one slot of the idr, or in the hands of the one thread that
\* is about to free it.
OneHome ==
    \A o \in Live :
       Cardinality({i \in Ids : idr[i] = o})
         + Cardinality({t \in Thread : pc[t] = "destroy_raw" /\ arg[t].obj = o})
       = 1

\* No pointer dangles: what a program, a handler, a job or the idr of an open
\* file refers to has not been freed, and a command buffer that RUNPGM, update
\* or destroy may take has its resource list (its id is visible before
\* vxe_prog_move_to_cbuf stores the list).  And no buffer is leaked or freed
\* twice: each has one home.
PointersValid ==
    /\ OneHome
    /\ \A c \in Programs : \A i \in DOMAIN buf[c].res : buf[c].res[i] \in Live
    /\ \A t \in Thread : /\ arg[t].obj \in Live \cup {None}
                         /\ \A i \in DOMAIN arg[t].bufs : arg[t].bufs[i] \in Live
    /\ running \subseteq Live
    /\ \A i \in Ids : Found(i) /\ i >= next_id =>
          /\ idr[i] \in Live
          /\ IsCmd(idr[i]) /\ ~IsLocked(idr[i]) => buf[idr[i]].has_res

\* The program of a job addresses regular buffers that exist and that no
\* client can destroy.
JobAddressesLocked ==
    \A c \in running : \A i \in DOMAIN buf[c].prog :
       LET o == buf[c].prog[i] IN o \in Live /\ IsLocked(o) /\ ~IsCmd(o)

\* A program does not change, and its command buffer is not freed, while it
\* has a job.
JobFrozen ==
    [][\A c \in running : buf'[c].live /\ buf'[c].prog = buf[c].prog]_vars

\* A locked buffer cannot be destroyed (vxe.h:149).
LockedNotDestroyed ==
    [][\A o \in Live : IsLocked(o) => buf'[o].live]_vars
=============================================================================
