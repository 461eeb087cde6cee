----------------------------- MODULE MCInstall ------------------------------
(* A family of small instances of Install, one per scenario.               *)
EXTENDS Install

CONSTANTS p1, p2

Base == [procs |-> {p1}, modes |-> {"PRODUCTION"}, wiring |-> "none", tools |-> {},
         begun |-> "fresh", calls |-> 0, crashes |-> 0, faults |-> 0, moves |-> 0,
         cred |-> {"proceed"}]

\* Two worlds open, and erase, one directory.
Worlds == [Base EXCEPT !.procs = {p1, p2}, !.modes = Modes, !.tools = {"write", "erase_all"},
             !.calls = 3, !.crashes = 2, !.faults = 1]

\* A ledger of an older version, and of a newer one.
Upgrading == [Base EXCEPT !.procs = {p1, p2}, !.begun = "old", !.tools = {"write", "setup"},
                !.calls = 2, !.crashes = 1, !.faults = 1]
Downgrading == [Base EXCEPT !.begun = "newer", !.tools = {"write", "setup"}, !.calls = 2]

\* An uninstall that keeps the sign-ins, among calls.
Fencing == [Base EXCEPT !.procs = {p1, p2}, !.begun = "installed",
              !.tools = {"erase_data", "write", "daily", "export", "signin"},
              !.cred = {"stop"}, !.calls = 3, !.crashes = 1, !.faults = 1]
Reinstalling == [Base EXCEPT !.begun = "installed", !.tools = {"erase_data", "setup", "write"},
                   !.calls = 4, !.crashes = 1]

\* The clean slate, among calls, and what setup makes of what is left.
Slate == [Base EXCEPT !.procs = {p1, p2}, !.begun = "installed",
            !.tools = {"erase_all", "write", "export"}, !.calls = 3, !.crashes = 1, !.faults = 2]
Again == [Base EXCEPT !.begun = "installed", !.tools = {"erase_all", "setup"},
            !.calls = 4, !.crashes = 1, !.faults = 2, !.moves = 1]

\* Creating the items, cut and failing, beside an eraser.
Forging == [Base EXCEPT !.procs = {p1, p2}, !.tools = {"setup", "erase_all"}, !.calls = 3,
              !.cred = {"store", "stop"}, !.crashes = 1, !.faults = 1]

\* The application: adopted, vanished, replaced.
Adopting == [Base EXCEPT !.begun = "installed", !.tools = {"setup", "accept"},
               !.calls = 5, !.crashes = 2, !.faults = 1, !.moves = 4]
Together == [Base EXCEPT !.procs = {p1, p2}, !.begun = "installed",
               !.tools = {"setup", "accept"}, !.calls = 3, !.moves = 2]

\* A key wired into the environment: as a reference, or as text.
Wired == [Base EXCEPT !.begun = "installed", !.wiring = "reference",
            !.tools = {"setup", "accept"}, !.calls = 3, !.crashes = 1, !.moves = 2, !.faults = 1]
Literal == [Base EXCEPT !.begun = "operator", !.wiring = "literal",
              !.tools = {"setup", "erase_all"}, !.calls = 3, !.crashes = 1, !.faults = 1]

MCScenarios == {Worlds, Upgrading, Downgrading, Fencing, Reinstalling, Slate, Again, Forging,
                Adopting, Together, Wired, Literal}

\* The first call of a new installation, and a crash.
First == [Base EXCEPT !.tools = {"write"}, !.calls = 2, !.crashes = 1]
MCFirst == {First}
=============================================================================
