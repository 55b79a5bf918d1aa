------------------------------ MODULE KsStartup ------------------------------
(***************************************************************************)
(* src/main_server.c and the two ends of ks_server_run: what the server    *)
(* acquires before its loop, what it gives back on each way out, and the   *)
(* stop flag with its signal handlers.  It starts with ks_config_load,     *)
(* which is KsConfig; the loop itself is KsServer, and ks_listen is KsNet. *)
(***************************************************************************)
EXTENDS KsConfig, FiniteSets

CONSTANTS FdSetSize,  \* FD_SETSIZE
          Listeners   \* descriptors ks_listen may return

Signals   == {"SIGINT", "SIGTERM"}
Resources == {"listener", "store", "pubsub", "clients"}

ASSUME SizesAssumption == FdSetSize \in Nat /\ Listeners \subseteq Nat

VARIABLES listenFd, result,
          held,      \* what has to be given back
          twice,     \* whether something was given back that was not held
          conns,     \* connections, each with a socket and an entry in the registry
          stop,      \* ks_stop_requested
          before, disposition, previous, \* of each signal: at the start, now, saved
          caught     \* whether the handler has run

resources == <<held, twice, conns>>
signals   == <<stop, before, disposition, previous, caught>>
vars      == <<pc, loader, listenFd, result, resources, signals>>

Init == /\ LoadInit /\ listenFd = 0 /\ result = 0
        /\ held = {} /\ twice = FALSE /\ conns = 0
        /\ stop = FALSE /\ caught = FALSE
        /\ before \in [Signals -> {"default", "ignore"}]
        /\ disposition = before /\ previous = [s \in Signals |-> "none"]

Goes(p) == pc' = p /\ UNCHANGED <<listenFd, result, signals>>

Acquires(r, p) == Goes(p) /\ held' = held \cup {r} /\ UNCHANGED <<twice, conns>>

Releases(S) == held' = held \ S /\ twice' = (twice \/ ~(S \subseteq held)) /\ UNCHANGED conns

\* An early return with result 1 that gives back S.
Gives(S) == /\ pc' = "returned" /\ result' = 1
            /\ Releases(S)
            /\ UNCHANGED <<listenFd, signals>>

-----------------------------------------------------------------------------
(* main, and ks_server_run up to its loop.                                 *)

Load == LoadStep /\ UNCHANGED <<listenFd, result, resources, signals>>

LoadFails == pc = "failed" /\ Gives({})
Starts    == pc = "loaded" /\ Goes("check") /\ UNCHANGED resources

LimitIsValid == cfg.clients # 0 /\ cfg.clients < FdSetSize

Check      == pc = "check" /\ LimitIsValid /\ Goes("listen") /\ UNCHANGED resources
CheckFails == pc = "check" /\ ~LimitIsValid /\ Gives({})

Listen(f) == /\ pc = "listen"
             /\ pc' = "fdsize" /\ listenFd' = f
             /\ held' = held \cup {"listener"}
             /\ UNCHANGED <<result, twice, conns, signals>>
ListenFails == pc = "listen" /\ Gives({})

InRange    == pc = "fdsize" /\ listenFd < FdSetSize /\ Goes("store") /\ UNCHANGED resources
RangeFails == pc = "fdsize" /\ listenFd >= FdSetSize /\ Gives({"listener"})

Store      == pc = "store" /\ Acquires("store", "pubsub")
StoreFails == pc = "store" /\ Gives({"listener"})

Pubsub      == pc = "pubsub" /\ Acquires("pubsub", "clients")
PubsubFails == pc = "pubsub" /\ Gives({"store", "listener"})

\* Mutant: the store is forgotten.
GivenWithoutClientsForgets == {"pubsub", "listener"}

GivenWithoutClients == {"pubsub", "store", "listener"}

Clients      == pc = "clients" /\ Acquires("clients", "flag")
ClientsFails == pc = "clients" /\ Gives(GivenWithoutClients)

\* The flag is cleared, then the handlers are installed, which may fail.
ClearFlag == /\ pc = "flag"
             /\ pc' = "SIGINT" /\ stop' = FALSE
             /\ UNCHANGED <<listenFd, result, resources, before, disposition, previous, caught>>

Installed(s) == IF s = "SIGINT" THEN "SIGTERM" ELSE "enter"

Install(s) == /\ pc = s
              /\ pc' = Installed(s)
              /\ previous' = [previous EXCEPT ![s] = disposition[s]]
              /\ disposition' = [disposition EXCEPT ![s] = "handler"]
              /\ UNCHANGED <<listenFd, result, resources, stop, before, caught>>

InstallFails(s) == /\ pc = s
                   /\ pc' = Installed(s)
                   /\ previous' = [previous EXCEPT ![s] = "SIG_ERR"]
                   /\ UNCHANGED <<listenFd, result, resources, stop, before, disposition, caught>>

Enter == pc = "enter" /\ Goes("loop") /\ UNCHANGED resources

-----------------------------------------------------------------------------
(* The loop as seen from outside, and the way out.  The flag is looked at  *)
(* between two turns only.                                                 *)

Connects == /\ pc = "loop" /\ conns < cfg.clients
            /\ conns' = conns + 1
            /\ UNCHANGED <<pc, listenFd, result, held, twice, signals>>

Disconnects == /\ pc = "loop" /\ conns > 0
               /\ conns' = conns - 1
               /\ UNCHANGED <<pc, listenFd, result, held, twice, signals>>

\* select fails.
LoopFails == /\ pc = "loop"
             /\ pc' = "clean" /\ result' = 1
             /\ UNCHANGED <<listenFd, resources, signals>>

\* Mutant: the server waits for its clients.
LoopEndsWhenIdle == pc = "loop" /\ stop /\ conns = 0 /\ Goes("clean") /\ UNCHANGED resources

LoopEnds == pc = "loop" /\ stop /\ Goes("clean") /\ UNCHANGED resources

\* Each client leaves the registry and is reset, then the array goes.
CleanClients == /\ pc = "clean"
                /\ Goes("give")
                /\ conns' = 0
                /\ twice' = (twice \/ ~({"pubsub", "clients"} \subseteq held))
                /\ held' = held \ {"clients"}

CleanRest == pc = "give" /\ Goes("restoreInt") /\ Releases({"listener", "store", "pubsub"})

\* Whether the old disposition is put back.
PutsBack(s) == previous[s] # "SIG_ERR"

Restore(s) == /\ pc = IF s = "SIGINT" THEN "restoreInt" ELSE "restoreTerm"
              /\ pc' = IF s = "SIGINT" THEN "restoreTerm" ELSE "returned"
              /\ disposition' = IF PutsBack(s) THEN [disposition EXCEPT ![s] = previous[s]] ELSE disposition
              /\ UNCHANGED <<listenFd, result, resources, stop, before, previous, caught>>

-----------------------------------------------------------------------------
(* A signal, at any time.  signal() may or may not reset the disposition   *)
(* when the handler runs.                                                  *)

Signal(s) ==
  /\ pc \notin {"returned", "killed"}
  /\ \/ /\ disposition[s] = "handler"
        /\ stop' = TRUE /\ caught' = TRUE
        /\ \E d \in {"handler", "default"} : disposition' = [disposition EXCEPT ![s] = d]
        /\ UNCHANGED pc
     \/ /\ disposition[s] = "default"
        /\ pc' = "killed"
        /\ UNCHANGED <<stop, caught, disposition>>
  /\ UNCHANGED <<listenFd, result, resources, before, previous>>

Prologue == \/ LoadFails \/ Starts \/ Check \/ CheckFails
            \/ (\E f \in Listeners : Listen(f)) \/ InRange \/ RangeFails
            \/ Store \/ Pubsub \/ Clients
            \/ ClearFlag \/ (\E s \in Signals : Install(s)) \/ Enter

Epilogue == LoopEnds \/ CleanClients \/ CleanRest \/ \E s \in Signals : Restore(s)

Failures == \/ ListenFails \/ StoreFails \/ PubsubFails \/ ClientsFails
            \/ (\E s \in Signals : InstallFails(s)) \/ LoopFails

Around == Connects \/ Disconnects \/ \E s \in Signals : Signal(s)

Runs == Load \/ ((Prologue \/ Epilogue) /\ UNCHANGED loader)

Next == Runs \/ ((Failures \/ Around) /\ UNCHANGED loader)

\* The process is scheduled; KsServer shows that its loop comes back to the flag.
Spec == Init /\ [][Next]_vars /\ WF_vars(Runs)

-----------------------------------------------------------------------------
(* Properties.                                                             *)

\* Whatever fails on the way up and however the loop ends: what was acquired is
\* given back once and nothing is given back that was not there, the signal
\* handlers that were found are back, and the loop runs with all it needs, with
\* a listener and a limit that are fit for select.
GivesBackExactly ==
  /\ ~twice
  /\ pc = "returned" => held = {} /\ conns = 0 /\ disposition = before
  /\ pc = "loop" => held = Resources /\ listenFd < FdSetSize /\ cfg.clients \in 1 .. FdSetSize - 1

\* A stop signal that is caught, even before the first turn of the loop, ends the
\* server, cleanly unless another signal kills it.
StopReturns == caught ~> pc \in {"returned", "killed"}

=============================================================================
