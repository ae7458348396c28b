--------------------------- MODULE UpgradeLifecycle ---------------------------
(****************************************************************************)
(* What the firmware upgrade promises, with its threads left out: a check   *)
(* offers a version, clients read the status of its task, its package is    *)
(* fetched, handed over to the system installer or the updater, and booted. *)
(* The process may die and the device may reboot at any time.               *)
(*                                                                          *)
(* No offer replaces work under way; a package that can be checked is       *)
(* reported as downloaded only when all of it is there, and any package is  *)
(* handed over only then; a boot tries no version but one that was handed   *)
(* over, maybe by a process before this one; after a restart no download is *)
(* under way that nobody works on.  FirmwareUpgrade implements this while   *)
(* one version is on offer and one download runs at a time.                 *)
(****************************************************************************)

CONSTANTS
    Versions,    \* versions the server can offer
    Factory,     \* the version the device leaves the factory with
    NoVersion    \* none

VARIABLES
    status,      \* status of the task, or "NONE"
    version,     \* version the task is for, or NoVersion
    package,     \* how much of its package is there: "none", "part" or "whole"
    checkable,   \* versions whose packages can be checked; never changes
    handed,      \* versions handed over that the installer may still work on
    next,        \* version the next boot is set to try, or NoVersion
    running,     \* version the device runs
    service      \* "down", "recovering" (before RestoreUpdate) or "up"

offer    == <<status, version, package>>
device   == <<next, running>>
lifeVars == <<offer, device, checkable, handed, service>>

LifeInit ==
    /\ status = "NONE" /\ version = NoVersion /\ package = "none"
    /\ handed = {} /\ checkable \subseteq Versions
    /\ next = NoVersion /\ running = Factory
    /\ service = "down"

\* Nothing is left of a task that is given up or comes to its end.
Cleared == status' = "NONE" /\ version' = NoVersion /\ package' = "none"

\* The status changes, and nothing else of the task.
Report(S) ==
    /\ status # "NONE" /\ status' \in S
    /\ UNCHANGED <<version, package>>

\* A check finds another version.  It is not offered over work under way.
Offer(v) ==
    /\ status \notin {"DOWNLOADING", "INSTALLING", "UPDATING"}
    /\ v # version
    /\ status' = "CHECK_VERSION_SUCCESS" /\ version' = v /\ package' = "none"
    /\ UNCHANGED <<device, handed, service>>

\* A failure of any part, a check that finds nothing, clearError, the verdict
\* on an update: the task goes, with its version and its package.
Withdraw ==
    /\ Cleared
    /\ handed' \subseteq handed
    /\ UNCHANGED <<device, service>>

\* A part of the package arrives, or a late report of one.
Fetch ==
    /\ status # "NONE" /\ status' \in {status, "DOWNLOADING"}
    /\ \/ package # "whole" /\ package' \in {"part", "whole"}
       \/ package' = package
    /\ UNCHANGED <<version, device, handed, service>>

\* The digest of the package is that of the version, or there is none to compare.
Verified ==
    /\ version \in checkable => package = "whole"
    /\ Report({"DOWNLOAD_SUCCESS"})
    /\ UNCHANGED <<device, handed, service>>

\* A download that is cancelled leaves the offer.
Cancelled ==
    /\ status # "NONE" /\ status' = "CHECK_VERSION_SUCCESS"
    /\ package' = "none"
    /\ UNCHANGED <<version, device, handed, service>>

\* The package goes to the system installer, or waits for the updater.
HandOver ==
    /\ package = "whole"
    /\ Report({"INSTALLING", "UPDATING"})
    /\ version \in handed' /\ handed' \subseteq handed \cup {version}
    /\ UNCHANGED <<device, service>>

\* Progress or the result of what was handed over, early or late.
Installing ==
    /\ handed # {}
    /\ Report({"INSTALLING", "INSTALL_SUCCESS", "INSTALL_FAIL"})
    /\ handed' \subseteq handed
    /\ UNCHANGED <<device, service>>

\* A version that was handed over will be tried by the next boot.
SetNext ==
    /\ next' \in handed
    /\ \/ UNCHANGED offer
       \/ Cleared
       \/ Report({"INSTALL_SUCCESS"})
    /\ handed' \subseteq handed
    /\ UNCHANGED <<running, service>>

\* The service is about to reboot the device.
Apply ==
    /\ Report({"UPDATING"})
    /\ UNCHANGED <<device, handed, service>>

\* An install thread ends.
Finish ==
    /\ handed' \subseteq handed
    /\ UNCHANGED <<offer, device, service>>

\* The process ends: it dies, is unloaded, or a download could not begin.  The
\* system installer may go on and succeed.
Down ==
    /\ service' = "down" /\ handed' = {}
    /\ next' \in {next} \cup handed
    /\ \/ UNCHANGED offer
       \/ /\ status # "NONE" /\ status' = "DOWNLOAD_FAIL"
          /\ package' = "none" /\ version' = version
    /\ UNCHANGED running

\* The device boots what it was set to try, or what it ran before.
Reboot ==
    /\ service' = "down" /\ handed' = {}
    /\ running' \in {running} \cup ({next} \ {NoVersion})
    /\ next' = NoVersion
    /\ UNCHANGED offer

\* The process starts, after TerminateUpgrade with nothing.
Start ==
    /\ service = "down" /\ service' = "recovering"
    /\ UNCHANGED offer \/ Cleared
    /\ UNCHANGED <<device, handed>>

\* What the last process left behind: a download is given up, an installation
\* begins again.
Recover ==
    /\ service = "recovering" /\ service' = "up"
    /\ \/ status \in {"DOWNLOADING", "INSTALLING", "INSTALL_SUCCESS"} /\ Cleared
       \/ status \in {"INSTALLING", "INSTALL_SUCCESS"} /\ Report({"DOWNLOAD_SUCCESS"})
       \/ status \notin {"DOWNLOADING", "INSTALLING", "INSTALL_SUCCESS"} /\ UNCHANGED offer
    /\ handed' \subseteq handed
    /\ UNCHANGED device

LifeNext ==
    /\ UNCHANGED checkable
    /\ \/ \E v \in Versions : Offer(v)
       \/ Withdraw \/ Fetch \/ Verified \/ Cancelled
       \/ HandOver \/ Installing \/ SetNext \/ Apply \/ Finish
       \/ Down \/ Reboot \/ Start \/ Recover

LifeSpec == LifeInit /\ [][LifeNext]_lifeVars
=============================================================================
