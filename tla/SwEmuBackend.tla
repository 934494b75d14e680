---------------------------- MODULE SwEmuBackend ----------------------------
(***************************************************************************)
(* The buffers of the emulator (swemu_backend.cxx, swemu_impl.hxx): one    *)
(* open device, its table of buffers, the manager that hands out their     *)
(* numbers, and the counts of how often a data buffer is bound.  A client  *)
(* makes one call at a time, with numbers that it was given and has not    *)
(* destroyed, or with one that no buffer ever had.                         *)
(*                                                                         *)
(* A creation of a command buffer that fails deletes the buffer and gives  *)
(* back its number, and leaves the pointer to it in the table: the kind    *)
(* "deleted" is such an entry.                                             *)
(***************************************************************************)
EXTENDS Integers, FiniteSets, SequencesExt

CONSTANTS
    MaxBuffers,         \* MAX_BUFFERS
    ResLen              \* the number of resources of a command buffer

ASSUME BackendAssumption == MaxBuffers \in Nat /\ ResLen \in Nat

VARIABLES
    isOpen,
    avail, next,        \* IdManager: m_avail and m_next
    buffers,            \* [id -> entry]: m_buffers
    held                \* the numbers that the client holds

beVars == <<isOpen, avail, next, buffers, held>>

Ids == 0 .. MaxBuffers - 1
Unknown == MaxBuffers       \* a number that no buffer ever has
Asked == held \cup {Unknown}

Slots == 1 .. ResLen

DataBuffer == [kind |-> "data", binds |-> 0, res |-> << >>, used |-> {}]
CmdBuffer(res, used) == [kind |-> "cmd", binds |-> 0, res |-> res, used |-> used]
DeletedBuffer == [kind |-> "deleted", binds |-> 0, res |-> << >>, used |-> {}]

Is(id, kind) == id \in DOMAIN buffers /\ buffers[id].kind = kind

\* IdManager::alloc: numbers given back come first, in their order.
CanAlloc == avail # << >> \/ next < MaxBuffers
AllocId == IF avail # << >> THEN Head(avail) ELSE next
AvailAfter == IF avail # << >> THEN Tail(avail) ELSE avail
NextAfter == IF avail # << >> THEN next ELSE next + 1

Insert(id, entry) == [i \in DOMAIN buffers \cup {id} |->
                         IF i = id THEN entry ELSE buffers[i]]

\* How often a data buffer is among the resources.
Times(id, res) == Cardinality({i \in DOMAIN res : res[i] = id})

\* The table with other counts: the resources old are unbound, new are bound.
Count(table, old, new) ==
    [i \in DOMAIN table |->
        [table[i] EXCEPT !.binds = @ - Times(i, old) + Times(i, new)]]

DeviceOpen == /\ ~isOpen /\ isOpen' = TRUE
              /\ avail' = << >> /\ next' = 0 /\ buffers' = << >> /\ held' = {}

DeviceClose == /\ isOpen /\ isOpen' = FALSE
               /\ avail' = << >> /\ next' = 0 /\ buffers' = << >> /\ held' = {}
 
\* A creation of either kind that ends in ENOMEM gives the number back: there
\* is no memory, or the table has an entry of that number.
CreateNoMemory ==
    /\ isOpen /\ CanAlloc
    /\ avail' = Append(AvailAfter, AllocId) /\ next' = NextAfter
    /\ UNCHANGED <<isOpen, buffers, held>>

\* Mutant: the table is not asked whether it has the number.
BufferCreateOver ==
    /\ isOpen /\ CanAlloc
    /\ buffers' = Insert(AllocId, DataBuffer)
    /\ avail' = avail /\ next' = NextAfter
    /\ held' = held \cup {AllocId}
    /\ UNCHANGED isOpen

BufferCreate ==
    /\ isOpen /\ CanAlloc
    /\ AllocId \notin DOMAIN buffers
    /\ buffers' = Insert(AllocId, DataBuffer)
    /\ avail' = AvailAfter /\ next' = NextAfter
    /\ held' = held \cup {AllocId}
    /\ UNCHANGED isOpen

\* ENOENT, EPERM, or the buffer goes, and with it its bindings.
BufferDestroy(id) ==
    /\ isOpen /\ id \in DOMAIN buffers /\ buffers[id].binds = 0
    /\ LET table == Count(buffers, buffers[id].res, << >>)
       IN  buffers' = [i \in DOMAIN buffers \ {id} |-> table[i]]
    /\ avail' = Append(avail, id)
    /\ held' = held \ {id}
    /\ UNCHANGED <<isOpen, next>>

\* The bindings are looked up after the command buffer is in the table; used
\* is what the program checker finds, if it takes the program.
CmdBufferCreate(res, used, accepted) ==
    /\ isOpen /\ CanAlloc
    /\ AllocId \notin DOMAIN buffers
    /\ next' = NextAfter
    /\ IF accepted /\ \A i \in Slots : Is(res[i], "data")
       THEN /\ buffers' = Count(Insert(AllocId, CmdBuffer(res, used)), << >>, res)
            /\ avail' = AvailAfter /\ held' = held \cup {AllocId}
       ELSE /\ buffers' = Insert(AllocId, DeletedBuffer)
            /\ avail' = Append(AvailAfter, AllocId)
            /\ UNCHANGED held
    /\ UNCHANGED isOpen

\* Mutant: the bindings of unused resources are counted as new ones.
CmdBufferUpdateCountsAll(id, res, fit) ==
    /\ isOpen /\ Is(id, "cmd") /\ fit
    /\ \A i \in buffers[id].used : Is(res[i], "data")
    /\ LET cb == buffers[id]
           new == [i \in Slots |-> IF i \in cb.used THEN res[i] ELSE cb.res[i]]
       IN  buffers' = Count([buffers EXCEPT ![id].res = new], cb.res, res)
    /\ UNCHANGED <<isOpen, avail, next, held>>

\* The resources that the program uses are exchanged, if all new ones exist and
\* are long enough.
CmdBufferUpdate(id, res, fit) ==
    /\ isOpen /\ Is(id, "cmd") /\ fit
    /\ \A i \in buffers[id].used : Is(res[i], "data")
    /\ LET cb == buffers[id]
           new == [i \in Slots |-> IF i \in cb.used THEN res[i] ELSE cb.res[i]]
       IN  buffers' = Count([buffers EXCEPT ![id].res = new], cb.res, new)
    /\ UNCHANGED <<isOpen, avail, next, held>>

BeInit == /\ isOpen = FALSE /\ avail = << >> /\ next = 0 /\ buffers = << >>
          /\ held = {}

BeNext ==
    \/ DeviceOpen \/ DeviceClose \/ BufferCreate \/ CreateNoMemory
    \/ \E id \in Asked : BufferDestroy(id)
    \/ \E res \in [Slots -> Asked], used \in SUBSET Slots, ok \in BOOLEAN :
           CmdBufferCreate(res, used, ok)
    \/ \E id \in Asked, res \in [Slots -> Asked], fit \in BOOLEAN :
           CmdBufferUpdate(id, res, fit)

BeSpec == BeInit /\ [][BeNext]_beVars

-----------------------------------------------------------------------------

\* The numbers that were handed out and not destroyed name live buffers, none
\* of them is waiting to be handed out again, and none is ever lost, however
\* creations fail and in whatever order buffers are destroyed.
ClientIdsLive ==
    /\ \A id \in held : Is(id, "data") \/ Is(id, "cmd")
    /\ held \cap ToSet(avail) = {}
    /\ isOpen => Cardinality(held) + Len(avail) = next

\* The count of a data buffer is the number of places where command buffers
\* name it, through every creation, update and destruction, those that fail
\* and those that leave the unused resources alone; so no command buffer ever
\* names a buffer that is gone.
BindsExact ==
    \A id \in DOMAIN buffers :
        /\ Is(id, "data") => buffers[id].binds =
               Cardinality({p \in (DOMAIN buffers) \X Slots :
                   Is(p[1], "cmd") /\ buffers[p[1]].res[p[2]] = id})
        /\ Is(id, "cmd") => \A i \in Slots : Is(buffers[id].res[i], "data")
=============================================================================
