----------------------------- MODULE Readiness -----------------------------
(***************************************************************************)
(* DiskStore with its readiness probe: what GET /readyz does between the   *)
(* operations of the store (handlers.go:659, service.go:49,                *)
(* store.go:1233).                                                         *)
(*                                                                         *)
(* Ready takes s.mu for reading: probes overlap with each other and with   *)
(* no operation.  Each makes a file .ready-* in tmp/, removes it, looks    *)
(* through every directory, and objects to anything it finds in tmp/.      *)
(***************************************************************************)
EXTENDS DiskStore

CONSTANT Probes   \* requests to /readyz

VARIABLES
  probe,      \* each probe: whether its file is there
  crowded,    \* ghost: the probe was not alone
  leftovers   \* a .ready-* file is in tmp/ that no probe will remove

probeVars == <<probe, crowded, leftovers>>
allVars == <<vars, probeVars>>

ReadinessInit ==
  /\ Init
  /\ probe = [p \in Probes |-> "none"]
  /\ crowded = [p \in Probes |-> FALSE]
  /\ leftovers = FALSE

-----------------------------------------------------------------------------

Probing == {p \in Probes : probe[p] \in {"file", "look"}}

Goes(p, place) == probe' = [probe EXCEPT ![p] = place]

\* The 200 or 503 is sent.
Returns(p) ==
  /\ Goes(p, "none")
  /\ crowded' = [crowded EXCEPT ![p] = FALSE]

\* What a probe leaves alone.
Looks == UNCHANGED <<diskVars, procVars, op, index, ghostVars>>

\* CreateTemp(tmpDir, ".ready-*").
ProbeCreate(p) ==
  /\ Serving
  /\ probe[p] = "none"
  /\ Goes(p, "file")
  /\ crowded' = [q \in Probes |-> IF q = p THEN Probing # {}
                                 ELSE crowded[q] \/ q \in Probing]
  /\ UNCHANGED <<leftovers, faults>> /\ Looks

ProbeCannotCreate(p) ==
  /\ Serving
  /\ probe[p] = "none"
  /\ IOError
  /\ UNCHANGED probeVars /\ Looks

ProbeRemove(p) ==
  /\ probe[p] = "file"
  /\ Goes(p, "look")
  /\ UNCHANGED <<crowded, leftovers, faults>> /\ Looks

\* Close fails, and the file is removed all the same; or the removal does.
ProbeCannotRemove(p) ==
  /\ probe[p] = "file"
  /\ IOError
  /\ Returns(p)
  /\ leftovers' \in {leftovers, TRUE}
  /\ Looks

\* Mutant: the sessions and the trash are not looked through.
ProbeLookAtFiles(p, ready) ==
  /\ probe[p] = "look"
  /\ ready = /\ partials = {} /\ manifestTmps = {} /\ ~leftovers
             /\ \A id \in FileIds : manifests[id] # "none" <=> id \in objects
             /\ \A q \in Probes : probe[q] # "file"
  /\ Returns(p)
  /\ UNCHANGED <<leftovers, faults>> /\ Looks

\* The directories, and tmp/ last: another probe's file is as bad as a leftover.
ProbeLook(p, ready) ==
  /\ probe[p] = "look"
  /\ ready = (ReadyOK /\ ~leftovers /\ \A q \in Probes : probe[q] # "file")
  /\ Returns(p)
  /\ UNCHANGED <<leftovers, faults>> /\ Looks

ProbeCannotLook(p) ==
  /\ probe[p] = "look"
  /\ IOError
  /\ Returns(p)
  /\ UNCHANGED leftovers /\ Looks

ProbeWorks(p) ==
  \/ ProbeRemove(p) \/ ProbeCannotRemove(p) \/ ProbeCannotLook(p)
  \/ \E ready \in BOOLEAN : ProbeLook(p, ready)

ProbeStep(p) == ProbeCreate(p) \/ ProbeCannotCreate(p) \/ ProbeWorks(p)

-----------------------------------------------------------------------------

\* Mutant: Ready does not take the lock, and operations begin beside it.
StoreAnytime ==
  /\ Progress \/ FileStart \/ UploadStart \/ Restart \/ \E u \in UploadIds : Age(u)
  /\ UNCHANGED probeVars

\* Operations wait for the read lock; recovery and the clock have no probe beside them.
StoreBesideProbes ==
  /\ \/ Progress \/ Restart
     \/ Probing = {} /\ (FileStart \/ UploadStart)
     \/ \E u \in UploadIds : Age(u)
  /\ UNCHANGED probeVars

\* The process is killed: a probe's file stays, since Recover takes *.part only
\* (recovery.go:75).
CrashWithProbes ==
  /\ Crash
  /\ leftovers' = (leftovers \/ \E p \in Probes : probe[p] = "file")
  /\ probe' = [p \in Probes |-> "none"]
  /\ crowded' = [p \in Probes |-> FALSE]

ReadinessNext ==
  \/ StoreBesideProbes
  \/ CrashWithProbes
  \/ \E p \in Probes : ProbeStep(p)

\* A handler that holds the lock runs on, and systemd restarts the process
\* (deploy/systemd/astrastore-xion.service: Restart).
ReadinessSpec ==
  /\ ReadinessInit /\ [][ReadinessNext]_allVars
  /\ WF_allVars(Progress /\ UNCHANGED probeVars)
  /\ WF_allVars(Restart /\ UNCHANGED probeVars)

-----------------------------------------------------------------------------

\* Whatever operations have run before, finished, refused, or given up by their clients:
\* a probe that has the store for itself answers 200.  Only a failed system call, an
\* earlier kill or another probe makes it say 503.
LoneProbeReady ==
  [][\A p \in Probes : ProbeLook(p, FALSE) => faults > 0 \/ crashes > 0 \/ crowded[p]]_allVars

\* A 200 is never given over a store some operation has half changed: when the probe
\* answers, no operation holds the lock, every session can be read, every deleted file
\* restored, and (short of a failed system call) the usage index, whose first failure
\* sync.Once keeps, admits writes.
ReadyMeansWhole ==
  [][\A p \in Probes : ProbeLook(p, TRUE) =>
       /\ op = Idle /\ RebuildOK
       /\ faults <= 1 => \A id \in held : HasBytes(id)
       /\ faults = 0 => index # "failed"]_allVars

=============================================================================
