----------------------------- MODULE NetworkScan -----------------------------
(***************************************************************************)
(* Find of the network plugin (networkscan.go): per network, the addresses *)
(* of its subnets go one by one over an unbuffered channel to the workers, *)
(* which dial them and append what answers to the one slice `sockets`,     *)
(* without a lock.                                                         *)
(*                                                                         *)
(* The append is modelled as the Go compiler makes it, for a variable in   *)
(* memory: the slice's words are read; with room left only the length is   *)
(* written back, else the elements are copied to an array of twice the     *)
(* size and all words are written; then the element is stored, a struct of *)
(* many words, here of two.  Its reads of the three words, and its writes  *)
(* of them when it grows, are taken as one: tearing those apart is not     *)
(* modelled.                                                               *)
(*                                                                         *)
(* A subnet is [base, length]; an address is its own key.  Ports are left  *)
(* out: a job is an address.                                               *)
(***************************************************************************)
EXTENDS FindState, SequencesExt

-----------------------------------------------------------------------------
(* subnetToIps: start and finish are uint32 *)

Top == 2^Bits - 1
BlockSize(net) == 2^(Bits - net.length)
NetworkOf(net) == net.base - (net.base % BlockSize(net))
Broadcast(net) == NetworkOf(net) + BlockSize(net) - 1

Alone(net) == NetworkOf(net) = Broadcast(net)
Start(net) == IF Alone(net) THEN NetworkOf(net) ELSE NetworkOf(net) + 1
Finish(net) == IF Alone(net) THEN Broadcast(net) ELSE Broadcast(net) - 1

\* `for i := start; i <= finish; i++` wraps around at the last address.
NeverEnds(net) == Finish(net) = Top

\* What earlier subnets have: ipcache.
Cached(nets, k) == UNION {Start(nets[j])..Finish(nets[j]) : j \in 1..k - 1}

\* Mutant: no ipcache.
NewAddressesAll(nets, k) == Start(nets[k])..Finish(nets[k])

\* An empty range for a /31.
NewAddresses(nets, k) == (Start(nets[k])..Finish(nets[k])) \ Cached(nets, k)

\* The addresses to dial, each with the subnet it comes from: the dispatcher
\* goes through them subnet by subnet, upwards.
SubnetToIps(nets) == UNION {{k} \X NewAddresses(nets, k) : k \in DOMAIN nets}

Precedes(i, j) == i[1] < j[1] \/ (i[1] = j[1] /\ i[2] < j[2])

-----------------------------------------------------------------------------
Off == [pc |-> "off", job |-> None, mine |-> [array |-> 0, len |-> 0, cap |-> 0]]
NilSlice == [array |-> 0, len |-> 0, cap |-> 0]

Blank == [name |-> None, target |-> None]

WorkerPC == {"off", "take", "dial", "append", "reserve", "name", "target"}

\* Workers between the first read and the last store of an append.
Appending == {w \in Workers : worker[w].pc \in {"reserve", "name", "target"}}

\* sockets := []models.Socket{}, then network by network, when the workers of
\* the last have ended (wg.Wait).
NextNetwork ==
    /\ find.pc = "next" /\ Plugin = "network" /\ find.todo # <<>>
    /\ LET nets == Head(find.todo)
       IN  IF \E n \in DOMAIN nets : NeverEnds(nets[n])
           THEN find' = [find EXCEPT !.pc = "stuck"] /\ UNCHANGED <<jobs, worker>>
           ELSE /\ jobs' = SubnetToIps(nets)
                /\ find' = [find EXCEPT !.todo = Tail(@),
                                        !.pc = IF jobs' = {} THEN "next" ELSE "scan"]
                /\ worker' = [w \in Workers |->
                                 [Off EXCEPT !.pc = IF jobs' = {} THEN "off" ELSE "take"]]
    /\ UNCHANGED <<scenario, up, slice, heap, faults>>

WorkerGoes(w, pc) ==
    /\ worker' = [worker EXCEPT ![w].pc = pc]
    /\ UNCHANGED <<scenario, up, jobs>>

\* `jobs <- job` meets a worker's range over jobs.
Take(w) ==
    /\ worker[w].pc = "take"
    /\ \E job \in jobs :
         /\ \A other \in jobs \ {job} : Precedes(job, other)
         /\ worker' = [worker EXCEPT ![w].pc = "dial", ![w].job = job[2]]
         /\ jobs' = jobs \ {job}
    /\ UNCHANGED <<scenario, up, find, slice, heap, faults>>

\* Mutant: the channel of the jobs is not closed.
LeaveNever(w) ==
    /\ worker[w].pc = "take" /\ jobs = {}
    /\ UNCHANGED <<findVars, faults>>

\* close(jobs) ends the range.
Leave(w) ==
    /\ worker[w].pc = "take" /\ jobs = {}
    /\ worker' = [worker EXCEPT ![w] = Off]
    /\ UNCHANGED <<scenario, up, find, jobs, slice, heap, faults>>

\* scanPort.  A dial fails, as if nothing listened, when it takes longer than
\* 1 s, or when too many files are open: a connection that is made is never
\* closed, but by the garbage collector.
Dial(w) ==
    /\ worker[w].pc = "dial"
    /\ \/ /\ worker[w].job \in up
          /\ WorkerGoes(w, "append") /\ UNCHANGED <<find, faults>>
       \/ /\ worker[w].job \notin up
          /\ WorkerGoes(w, "take") /\ UNCHANGED <<find, faults>>
       \/ /\ Fault("dial")
          /\ find' = [find EXCEPT !.clean = FALSE]
          /\ WorkerGoes(w, "take")
    /\ UNCHANGED <<slice, heap>>

\* append: the words of `sockets` are read.
ReadSlice(w) ==
    /\ worker[w].pc = "append"
    /\ worker' = [worker EXCEPT ![w].pc = "reserve", ![w].mine = slice]
    /\ find' = [find EXCEPT !.clean = @ /\ Appending = {}]
    /\ UNCHANGED <<scenario, up, jobs, slice, heap, faults>>

\* What lies behind the end of an array is taken to be blank.
Element(array, i) ==
    IF array # 0 /\ i <= Len(heap[array]) THEN heap[array][i] ELSE Blank

\* append: there is room.
Reserve(w) ==
    /\ worker[w].pc = "reserve" /\ worker[w].mine.len < worker[w].mine.cap
    /\ slice' = [slice EXCEPT !.len = worker[w].mine.len + 1]
    /\ WorkerGoes(w, "name")
    /\ UNCHANGED <<find, heap, faults>>

\* append: there is none.
Grow(w) ==
    /\ worker[w].pc = "reserve" /\ worker[w].mine.len >= worker[w].mine.cap
    /\ LET mine == worker[w].mine
           cap == IF mine.len < 2 * mine.cap THEN 2 * mine.cap ELSE mine.len + 1
           copy == [i \in 1..cap |-> IF i <= mine.len THEN Element(mine.array, i)
                                                      ELSE Blank]
       IN  /\ heap' = Append(heap, copy)
           /\ slice' = [array |-> Len(heap'), len |-> mine.len + 1, cap |-> cap]
           /\ worker' = [worker EXCEPT ![w].pc = "name",
                                       ![w].mine.array = Len(heap')]
    /\ UNCHANGED <<scenario, up, find, jobs, faults>>

Slot(w) == worker[w].mine.len + 1

StoreName(w) ==
    /\ worker[w].pc = "name"
    /\ heap' = [heap EXCEPT ![worker[w].mine.array][Slot(w)].name = worker[w].job]
    /\ WorkerGoes(w, "target")
    /\ UNCHANGED <<find, slice, faults>>

StoreTarget(w) ==
    /\ worker[w].pc = "target"
    /\ heap' = [heap EXCEPT ![worker[w].mine.array][Slot(w)].target = worker[w].job]
    /\ worker' = [worker EXCEPT ![w] = [Off EXCEPT !.pc = "take"]]
    /\ UNCHANGED <<scenario, up, find, jobs, slice, faults>>

\* wg.Wait.
ScanEnds ==
    /\ find.pc = "scan"
    /\ jobs = {} /\ \A w \in Workers : worker[w].pc = "off"
    /\ find' = [find EXCEPT !.pc = "next"]
    /\ UNCHANGED <<scenario, up, scanVars, faults>>

\* A length beyond the array: its last elements are read from elsewhere.
WildRead ==
    /\ find.pc = "next" /\ Plugin = "network" /\ find.todo = <<>>
    /\ slice.len > slice.cap
    /\ find' = [NoFind EXCEPT !.pc = "crashed"]
    /\ slice' = NilSlice /\ heap' = <<>>
    /\ UNCHANGED <<scenario, up, jobs, worker, faults>>

ReturnScan ==
    /\ find.pc = "next" /\ Plugin = "network" /\ find.todo = <<>>
    /\ Found({[of |-> i, key |-> Element(slice.array, i).name,
               data |-> Element(slice.array, i).target] : i \in 1..slice.len})
    /\ slice' = NilSlice /\ heap' = <<>>
    /\ UNCHANGED <<scenario, up, jobs, worker, faults>>

ScanStep ==
    \/ NextNetwork \/ ScanEnds \/ ReturnScan \/ WildRead
    \/ \E w \in Workers : Take(w) \/ Leave(w) \/ Dial(w) \/ ReadSlice(w)
                          \/ Reserve(w) \/ Grow(w) \/ StoreName(w) \/ StoreTarget(w)

\* What a subnet's hosts are: its addresses but the first and the last, or
\* the one it has.
Block(net) == {a \in 0..Top : a \div BlockSize(net) = net.base \div BlockSize(net)}
Hosts(net) ==
    IF net.length = Bits THEN Block(net)
    ELSE {a \in Block(net) : \E b, c \in Block(net) : b < a /\ a < c}
=============================================================================
