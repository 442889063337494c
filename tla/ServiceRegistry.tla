--------------------------- MODULE ServiceRegistry ---------------------------
(***************************************************************************)
(* The daemon's list of services: every file libsrv_* is opened and asked   *)
(* to register itself; services are looked up by name, unloaded by name or  *)
(* all together.  A library that is closed for the last time is unmapped,   *)
(* and an entry that is left of it points into nothing.                     *)
(***************************************************************************)
EXTENDS Integers, Sequences, FiniteSets, SequencesExt

CONSTANTS
  Files,      \* the files glob finds, in order
  ServiceOf,  \* the name the service of a file has
  Finit,      \* what its finit_service does: "unregisters", "fails", or there is "none"
  NoEntry,    \* the end of the list
  MAXENTRIES  \* bound: entries ever made

RegistryAssumption ==
  /\ Files \in Seq(DOMAIN ServiceOf) /\ ToSet(Files) = DOMAIN ServiceOf
  /\ Finit \in [DOMAIN ServiceOf -> {"unregisters", "fails", "none"}]
  /\ MAXENTRIES \in Nat /\ NoEntry \notin 1 .. MAXENTRIES

VARIABLES
  services,   \* the list; an entry has its number, its file and whether that is still mapped
  nextId,     \* number of the next entry
  refs,       \* how often dlopen has opened a file
  pc,         \* "load", "run", "unload" (qc_unload_all_services) or "exited"
  at,         \* load: files tried; unload: the entry it is at, and the one it saved
  saved,
  slots,      \* what qc_load_all_services returned
  failed      \* history: a finit_service failed

registryVars == <<services, nextId, refs, pc, at, saved, slots, failed>>

Libs == DOMAIN ServiceOf
Entries == [id : 1 .. MAXENTRIES, file : Libs, mapped : BOOLEAN]

RegistryTypeOK ==
  /\ services \in Seq(Entries) /\ nextId \in 1 .. MAXENTRIES + 1
  /\ refs \in [Libs -> 0 .. MAXENTRIES]
  /\ pc \in {"load", "run", "unload", "exited"}
  /\ slots \in 0 .. Len(Files) /\ failed \in BOOLEAN

RegistryInit ==
  /\ services = <<>> /\ nextId = 1 /\ slots = 0 /\ failed = FALSE
  /\ refs = [f \in Libs |-> 0]
  /\ pc = "load" /\ at = 0 /\ saved = NoEntry

-----------------------------------------------------------------------------
(* Operators                                                               *)

\* lookup_qhgpu_sitem: the first entry of that name, 0 for null.
Lookup(list, name) ==
  LET matches == {i \in DOMAIN list : ServiceOf[list[i].file] = name}
  IN IF matches = {} THEN 0 ELSE CHOOSE i \in matches : \A j \in matches : i \leq j

\* qc_unregister_service: whatever entry has the name.
Unregistered(list, name) ==
  IF Lookup(list, name) = 0 THEN list ELSE RemoveAt(list, Lookup(list, name))

\* A look-up compares the names of all entries up to its match, in their libraries.
Readable(name) ==
  \A i \in DOMAIN services :
    (\A j \in 1 .. i - 1 : ServiceOf[services[j].file] # name) => services[i].mapped

\* What dlclose leaves of the list: the last one unmaps the file.
Closed(list, f) ==
  IF refs[f] > 1 THEN list
  ELSE [i \in DOMAIN list |-> IF list[i].file = f THEN [list[i] EXCEPT !.mapped = FALSE] ELSE list[i]]

-----------------------------------------------------------------------------
(* Loading                                                                 *)

\* qc_load_service: dlopen fails; or there is no init_service, or it or
\* qc_register_service fails, and the library is closed again.
LoadFails(f) == UNCHANGED <<services, nextId, refs>>

\* init_service has called qc_register_service.
LoadRegisters(f) ==
  /\ nextId \leq MAXENTRIES
  /\ services' = Append(services, [id |-> nextId, file |-> f, mapped |-> TRUE])
  /\ nextId' = nextId + 1
  /\ refs' = [refs EXCEPT ![f] = @ + 1]

LoadService(f) == LoadRegisters(f) \/ LoadFails(f)

\* One turn of the loop of qc_load_all_services.
LoadAllStep ==
  /\ pc = "load" /\ at < Len(Files)
  /\ LoadService(Files[at + 1])
  /\ at' = at + 1
  /\ UNCHANGED <<pc, saved, slots, failed>>

\* The init_service of BFS and of the radix sorts ends the process when the kernel
\* file is missing or does not compile.
InitExits ==
  /\ pc = "load" /\ at < Len(Files)
  /\ pc' = "exited"
  /\ UNCHANGED <<services, nextId, refs, at, saved, slots, failed>>

\* It returns the number of files, which becomes the number of mmap slots.
LoadAllReturns ==
  /\ pc = "load" /\ at = Len(Files)
  /\ pc' = "run" /\ slots' = at
  /\ UNCHANGED <<services, nextId, refs, at, saved, failed>>

LoadAgain(f) ==
  /\ pc = "run" /\ LoadService(f)
  /\ UNCHANGED <<pc, at, saved, slots, failed>>

-----------------------------------------------------------------------------
(* Unloading                                                               *)

CanUnload(i) ==
  LET f == services[i].file IN services[i].mapped /\ (Finit[f] = "unregisters" => Readable(ServiceOf[f]))

\* __unload_service of the entry at place i.  finit_service unregisters by name, and
\* the library is closed whether it succeeded or not.
UnloadEntry(i) ==
  LET f == services[i].file IN
  /\ CanUnload(i)
  /\ services' = Closed(CASE Finit[f] = "unregisters" -> Unregistered(services, ServiceOf[f])
                          [] Finit[f] = "fails" -> services
                          [] Finit[f] = "none" -> RemoveAt(services, i), f)
  /\ failed' = (failed \/ Finit[f] = "fails")
  /\ refs' = [refs EXCEPT ![f] = @ - 1]

\* qc_unload_service
UnloadService(name) ==
  /\ pc = "run" /\ Lookup(services, name) # 0 /\ Readable(name)
  /\ UnloadEntry(Lookup(services, name))
  /\ UNCHANGED <<nextId, pc, at, saved, slots>>

\* The entry at place i, and where an entry is.
IdAt(list, i) == IF i \in DOMAIN list THEN list[i].id ELSE NoEntry
Place(list, id) == CHOOSE i \in DOMAIN list : list[i].id = id

\* qc_unload_all_services: list_for_each_safe begins.
UnloadAll ==
  /\ pc = "run" /\ pc' = "unload"
  /\ at' = IdAt(services, 1) /\ saved' = IdAt(services, 2)
  /\ UNCHANGED <<services, nextId, refs, slots, failed>>

\* Mutant: the successor is taken from the entry after it was unloaded.
UnloadAllStepUnsafe ==
  /\ pc = "unload" /\ at # NoEntry
  /\ UnloadEntry(Place(services, at))
  /\ at' = saved /\ saved' = at
  /\ UNCHANGED <<nextId, pc, slots>>

\* One turn: unload, then go to the saved entry and save its successor.
UnloadAllStep ==
  /\ pc = "unload" /\ at # NoEntry
  /\ UnloadEntry(Place(services, at))
  /\ at' = saved
  /\ saved' = IF saved = NoEntry THEN NoEntry ELSE IdAt(services', Place(services', saved) + 1)
  /\ UNCHANGED <<nextId, pc, slots>>

UnloadAllReturns ==
  /\ pc = "unload" /\ at = NoEntry
  /\ pc' = "run" /\ at' = 0
  /\ UNCHANGED <<services, nextId, refs, saved, slots, failed>>

\* A look-up, for a request or to unregister, or the loop meets an entry whose
\* library is gone.
Faults ==
  /\ \/ pc = "run" /\ \E f \in Libs : ~Readable(ServiceOf[f])
     \/ pc = "unload" /\ at # NoEntry /\ ~CanUnload(Place(services, at))
  /\ pc' = "exited"
  /\ UNCHANGED <<services, nextId, refs, at, saved, slots, failed>>

RegistryNext ==
  \/ LoadAllStep \/ InitExits \/ LoadAllReturns \/ UnloadAll \/ UnloadAllStep \/ UnloadAllReturns \/ Faults
  \/ \E f \in Libs : LoadAgain(f) \/ UnloadService(ServiceOf[f])

RegistrySpec == RegistryInit /\ [][RegistryNext]_registryVars

-----------------------------------------------------------------------------
(* Properties                                                              *)

\* qc_unload_all_services removes only the entry it is at: the one that
\* list_for_each_safe saved, and went to, is still on the list, although services
\* unregister by name and names may be taken twice.
WalkStaysOnList ==
  pc = "unload" => {at, saved} \ {NoEntry} \subseteq {services[i].id : i \in DOMAIN services}

\* As long as no finit_service failed, a look-up walks over entries of mapped
\* libraries only, and every library is open once for each of its entries: what is
\* closed is what was unregistered, also with two services of one name.
OpenWhileListed ==
  ~failed =>
    /\ \A i \in DOMAIN services : services[i].mapped
    /\ \A f \in Libs : refs[f] = Cardinality({i \in DOMAIN services : services[i].file = f})

\* There are never more services than the daemon asked slots for, whatever files
\* failed to load at first.
SlotPerService ==
  pc \in {"run", "unload"} => Cardinality({services[i].file : i \in DOMAIN services}) \leq slots

\* The list of services stays in order: qc_unload_all_services never leaves it,
\* look-ups meet mapped libraries only until a finit_service fails, and there are
\* slots enough for the services that qc_load_all_services left.
RegistryConsistent == RegistryTypeOK /\ WalkStaysOnList /\ OpenWhileListed /\ SlotPerService
=============================================================================
