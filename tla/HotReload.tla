----------------------------- MODULE HotReload ------------------------------
(***************************************************************************)
(* Reloading the library while it is rebuilt: notify.c, dlfn.c and the     *)
(* order in which game_simulation (main.c) uses them.                      *)
(*                                                                         *)
(* The compiler is another process that truncates, writes and closes       *)
(* code/feature.so at any time.  inotify is external: once a watch is      *)
(* added, every close of a written file in the directory queues its name.  *)
(* So is the dynamic linker: dlopen loads a library that is complete and   *)
(* fails on one that is being written.  The directory exists and system    *)
(* calls on the watch do not fail.  A symbol is what parse_symtab looks    *)
(* at: its kind, whether it is listed (global and not empty), its address. *)
(* A file name is the library's, a part of its path (notify_callback looks *)
(* for the name anywhere in the path), or another one.                     *)
(***************************************************************************)
EXTENDS Integers, Sequences, FiniteSets

CONSTANTS
  SymTab,      \* external: the symbols of each build of the library
  MaxSymbols,  \* MAX_SYMBOLS
  BufEvents,   \* events that notify_poll's buffer holds
  Closed,      \* no library is loaded
  MaxOther,    \* bound: other files written
  MaxReload    \* bound: "!r" commands

Builds == 1 .. Len(SymTab)
Kinds == {"function", "object"}
Symbols == [kind : Kinds, listed : BOOLEAN, address : Nat]

Names == {"library", "part", "other"}

\* An entry of a table: which symbol of which build, and its address.
Entries == [build : Builds, symbol : Nat, address : Nat]

ASSUME HotReloadAssumption ==
  /\ SymTab \in Seq(Seq(Symbols)) /\ SymTab # <<>>
  /\ MaxSymbols \in Nat /\ BufEvents \in Nat \ {0}
  /\ Closed \notin Builds
  /\ MaxOther \in Nat /\ MaxReload \in Nat

VARIABLES
  pc,        \* where game_simulation is
  running,   \* loop.c
  build,     \* the build that the file holds
  complete,  \* whether it is written to its end
  watching,  \* whether the watch exists
  events,    \* names queued for the watch
  dlhandle,  \* the build that is loaded
  table,     \* dlfn_function and dlfn_object, the entries in use
  others,    \* how many other files were written
  reloads    \* how often "!r" was typed

disk == <<build, complete, others>>
lib == <<dlhandle, table>>
vars == <<pc, running, disk, watching, events, lib, reloads>>

\* The order of a run.
\* As a mutant: the library is loaded before the watch exists.
LoadFirst == <<"dlfn_open", "notify_init", "loop", "notify_shutdown", "dlfn_shutdown">>
Order == <<"notify_init", "dlfn_open", "loop", "notify_shutdown", "dlfn_shutdown">>

At(step) == pc \in 1 .. Len(Order) /\ Order[pc] = step
Continue == pc' = (pc % Len(Order)) + 1

Empty == [k \in Kinds |-> <<>>]

Init ==
  /\ pc = 1
  /\ running = TRUE
  /\ build = 1 /\ complete = TRUE /\ others = 0
  /\ watching = FALSE /\ events = <<>>
  /\ dlhandle = Closed /\ table = Empty
  /\ reloads = 0

(***************************************************************************)
(* The compiler and other programs that write into the directory.          *)
(***************************************************************************)

\* A close of a written file queues an event for the watch.
Queued(name) == IF watching THEN Append(events, name) ELSE events

Truncate ==
  /\ complete
  /\ build < Len(SymTab)
  /\ build' = build + 1
  /\ complete' = FALSE
  /\ UNCHANGED <<pc, running, others, watching, events, lib, reloads>>

CloseWrite ==
  /\ ~complete
  /\ complete' = TRUE
  /\ events' = Queued("library")
  /\ UNCHANGED <<pc, running, build, others, watching, lib, reloads>>

WriteOther ==
  /\ others < MaxOther
  /\ others' = others + 1
  /\ \E name \in Names \ {"library"} : events' = Queued(name)
  /\ UNCHANGED <<pc, running, build, complete, watching, lib, reloads>>

(***************************************************************************)
(* game_simulation.                                                        *)
(***************************************************************************)

\* notify_init: a watch with an empty queue.
NotifyInit ==
  /\ At("notify_init")
  /\ watching' = TRUE
  /\ events' = <<>>
  /\ Continue
  /\ UNCHANGED <<running, disk, lib, reloads>>

AtMost(n, limit) == IF n < limit THEN n ELSE limit

\* The listed symbols of a kind, in the order of the symbol table.
Listed(k) ==
  {i \in 1 .. Len(SymTab[build]) : SymTab[build][i].kind = k /\ SymTab[build][i].listed}
Nth(k, n) == CHOOSE i \in Listed(k) : Cardinality({j \in Listed(k) : j < i}) = n - 1
Found(k) ==
  [n \in 1 .. Cardinality(Listed(k)) |->
     [build |-> build, symbol |-> Nth(k, n), address |-> SymTab[build][Nth(k, n)].address]]

\* parse_symtab: those that fit, behind the entries in use.
\* As a mutant: the limit is not checked.
ParsedAll(k) == table[k] \o Found(k)
Parsed(k) ==
  LET all == table[k] \o Found(k)
  IN  SubSeq(all, 1, AtMost(Len(all), MaxSymbols))

\* sort_functions and sort_objects: qsort by address, equal ones in any order.
Orders(entries, p) ==
  \A i, j \in 1 .. Len(entries) : i < j =>
    p[i] # p[j] /\ entries[p[i]].address <= entries[p[j]].address
Sorted(entries) ==
  LET n == Len(entries)
      p == CHOOSE q \in [1 .. n -> 1 .. n] : Orders(entries, q)
  IN  [i \in 1 .. n |-> entries[p[i]]]

\* dlfn_open.
DlfnOpen ==
  /\ At("dlfn_open")
  /\ complete
  /\ dlhandle' = build
  /\ table' = [k \in Kinds |-> Sorted(Parsed(k))]
  /\ Continue
  /\ UNCHANGED <<running, disk, watching, events, reloads>>

\* dlopen fails: no library in this run.
DlfnOpenFails ==
  /\ At("dlfn_open")
  /\ ~complete
  /\ dlhandle' = Closed
  /\ Continue
  /\ UNCHANGED <<running, disk, watching, events, table, reloads>>

\* The events of a read that notify_callback is called with.
Handled(n) == {events[i] : i \in 1 .. n}

\* strstr(dlpath, event->name): the names that end the run.
InPath == {"library", "part"}

\* notify_poll: read as many events as the buffer holds, and notify_callback
\* for each of them.
NotifyPoll ==
  LET n == AtMost(Len(events), BufEvents)
  IN  /\ At("loop")
      /\ running
      /\ events # <<>>
      /\ events' = SubSeq(events, n + 1, Len(events))
      /\ running' = (Handled(n) \cap InPath = {})
      /\ UNCHANGED <<pc, disk, watching, lib, reloads>>

\* input_callback for "!r".
Reload ==
  /\ At("loop")
  /\ running
  /\ reloads < MaxReload
  /\ reloads' = reloads + 1
  /\ running' = FALSE
  /\ UNCHANGED <<pc, disk, watching, events, lib>>

\* loop_run at the head of the loop.
\* As a mutant: the loop goes on.
NeverHalted == FALSE
Halted == ~running

LoopEnds ==
  /\ At("loop")
  /\ Halted
  /\ Continue
  /\ UNCHANGED <<running, disk, watching, events, lib, reloads>>

\* notify_shutdown: what is queued is gone.
NotifyShutdown ==
  /\ At("notify_shutdown")
  /\ watching' = FALSE
  /\ events' = <<>>
  /\ Continue
  /\ UNCHANGED <<running, disk, lib, reloads>>

\* The tables after dlfn_close.
\* As a mutant: the objects in use are not reset.
ObjectsKept == [table EXCEPT !["function"] = <<>>]
Cleared == Empty

\* dlfn_shutdown, and loop_init of the next run: dlfn_close does nothing when
\* no library was loaded.
DlfnShutdown ==
  /\ At("dlfn_shutdown")
  /\ table' = IF dlhandle = Closed THEN table ELSE Cleared
  /\ dlhandle' = Closed
  /\ running' = TRUE
  /\ Continue
  /\ UNCHANGED <<disk, watching, events, reloads>>

Compiler == Truncate \/ CloseWrite \/ WriteOther
Console ==
  \/ NotifyInit \/ DlfnOpen \/ DlfnOpenFails
  \/ NotifyPoll \/ LoopEnds \/ NotifyShutdown \/ DlfnShutdown

Next == Compiler \/ Console \/ Reload

\* The main thread goes on; the compiler closes its file.
Spec == Init /\ [][Next]_vars /\ WF_vars(Console) /\ WF_vars(CloseWrite)

-----------------------------------------------------------------------------
(***************************************************************************)
(* Properties.                                                             *)
(***************************************************************************)

\* Every variable has its type, and the tables stay within their arrays.
TypeOK ==
  /\ pc \in 1 .. Len(Order)
  /\ running \in BOOLEAN /\ complete \in BOOLEAN /\ watching \in BOOLEAN
  /\ build \in Builds /\ dlhandle \in Builds \cup {Closed}
  /\ others \in 0 .. MaxOther /\ reloads \in 0 .. MaxReload
  /\ \A i \in 1 .. Len(events) : events[i] \in Names
  /\ \A k \in Kinds : /\ Len(table[k]) <= MaxSymbols
                      /\ \A i \in 1 .. Len(table[k]) : table[k][i] \in Entries

\* No entry of the tables points into a library that was closed, also when a
\* run could not load any; no symbol is listed twice, and they are in the order
\* of their addresses: functions and objects are called and read through the
\* tables, in this order, in every frame.
TablesOfLoaded ==
  \A k \in Kinds : \A i \in 1 .. Len(table[k]) :
    /\ table[k][i].build = dlhandle
    /\ \A j \in 1 .. i - 1 : /\ table[k][j].symbol # table[k][i].symbol
                            /\ table[k][j].address <= table[k][i].address

\* A console that runs an old build, or none, has the news of the new one in
\* its queue: no build is missed between the watch and the load, in a read of
\* several events, or in a restart.
NoBuildMissed ==
  At("loop") /\ running /\ complete /\ dlhandle # build =>
    \E i \in 1 .. Len(events) : events[i] = "library"

\* A build that stays is loaded in the end.
BuildLoaded ==
  \A b \in Builds : (build = b) ~> (dlhandle = b \/ build # b)
=============================================================================
