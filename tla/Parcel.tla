------------------------------- MODULE Parcel -------------------------------
(***************************************************************************)
(* The structures that cross the process boundary of the update service    *)
(* and how message_parcel_helper.cpp lays them out in a message parcel.    *)
(*                                                                         *)
(* A parcel is a sequence of cells: one per ReadInt32, ReadUint32,         *)
(* ReadBool or ReadString16 of the code.  Nothing in a parcel says what a  *)
(* cell is for, so a reader that disagrees with the writer about one field *)
(* takes every later cell for something else.  A Write operator gives the  *)
(* cells it appends, a Read operator gives the value and the rest of the   *)
(* parcel.  Strings are numbers here (0 is the empty string): nothing but  *)
(* their identity matters.                                                 *)
(*                                                                         *)
(* MAX_VECTOR_SIZE is 128 and Word is 2^32 in the code; both are           *)
(* parameters so that small instances reach them.                          *)
(***************************************************************************)
EXTENDS Integers, SequencesExt

CONSTANTS
  MAX_VECTOR_SIZE,   \* longest list a reader accepts
  Word               \* the number of values of an unsigned 32-bit cell

ASSUME ParcelAssumption == MAX_VECTOR_SIZE \in Nat /\ Word \in Nat \ {0}

-----------------------------------------------------------------------------
(* The members of the structures, in the order in which they are written. *)

UpgradeInfo == <<"upgradeApp", "vendor", "subType", "upgradeDevId", "controlDevId">>
VersionDigestInfo == <<"versionDigest">>
ErrorMessage == <<"errorCode", "errorMessage">>
DescriptionOptions == <<"format", "language">>
DownloadOptions == <<"allowNetwork", "order">>
ResumeDownloadOptions == <<"allowNetwork">>
PauseDownloadOptions == <<"isAllowAutoResume">>
UpgradeOptions == <<"order">>
ClearOptions == <<"status">>
ComponentDescription == <<"componentId", "descriptionType", "content">>
VersionComponent ==
  <<"componentId", "componentType", "upgradeAction", "displayVersion", "innerVersion",
    "size", "effectiveMode", "descriptionType", "content", "componentExtra">>
TaskHead == <<"versionDigest", "status", "subStatus", "progress", "installMode">>
UpgradePeriod == <<"start", "end">>

-----------------------------------------------------------------------------
(* Cells *)

\* WriteUint32(static_cast<uint32_t>(x)) keeps the low 32 bits of x.
Uint32(x) == x % Word

\* Two structures, or the properties of two objects, in one: those of f come first.
f ++ g == [n \in DOMAIN f \union DOMAIN g |-> IF n \in DOMAIN f THEN f[n] ELSE g[n]]

\* What is left of parcel p after its first n cells.
Drop(p, n) == SubSeq(p, n + 1, Len(p))

\* A read past the end of a parcel gives zero or the empty string.
CellAt(p, i) == IF i <= Len(p) THEN p[i] ELSE 0

\* The cells of structure v, and the structure read from the head of p.
Cells(v, names) == [i \in DOMAIN names |-> v[names[i]]]

Struct(p, names) ==
  [v    |-> [n \in Range(names) |-> CellAt(p, CHOOSE i \in DOMAIN names : names[i] = n)],
   rest |-> Drop(p, Len(names))]

\* A list is its length and its elements.  A length beyond MAX_VECTOR_SIZE makes the
\* reader return at once, with an empty list and the elements still in the parcel.
WriteVector(list, names) ==
  LET width == Len(names)
  IN  <<Len(list)>> \o [k \in 1 .. Len(list) * width |->
                          Cells(list[1 + ((k - 1) \div width)], names)[1 + ((k - 1) % width)]]

ReadVector(p, names) ==
  LET size == CellAt(p, 1) IN
  IF size > MAX_VECTOR_SIZE
  THEN [v |-> <<>>, rest |-> Drop(p, 1)]
  ELSE [v    |-> [i \in 1..size |-> Struct(Drop(p, 1 + (i - 1) * Len(names)), names).v],
        rest |-> Drop(p, 1 + size * Len(names))]

-----------------------------------------------------------------------------
(* message_parcel_helper.cpp *)

WriteErrorMessages(list) == WriteVector(list, ErrorMessage)
ReadErrorMessages(p) == ReadVector(p, ErrorMessage)

WriteComponentDescriptions(list) == WriteVector(list, ComponentDescription)
ReadComponentDescriptions(p) == ReadVector(p, ComponentDescription)

WriteVersionComponents(list) ==
  WriteVector([i \in DOMAIN list |-> [list[i] EXCEPT !.size = Uint32(@)]], VersionComponent)
ReadVersionComponents(p) == ReadVector(p, VersionComponent)

WriteUpgradeInfo(info) == Cells(info, UpgradeInfo)
ReadUpgradeInfo(p) == Struct(p, UpgradeInfo)

WriteVersionDescriptionInfo(list) == WriteComponentDescriptions(list)
ReadVersionDescriptionInfo(p) == ReadComponentDescriptions(p)

WriteBusinessError(err) == <<err.message, err.errorNum>> \o WriteErrorMessages(err.data)
ReadBusinessError(p) ==
  LET data == ReadErrorMessages(Drop(p, 2)) IN
  [v    |-> [message |-> CellAt(p, 1), errorNum |-> CellAt(p, 2), data |-> data.v],
   rest |-> data.rest]

WriteNewVersionInfo(info) ==
  <<info.versionDigest>> \o WriteVersionComponents(info.versionComponents)
ReadNewVersionInfo(p) ==
  LET list == ReadVersionComponents(Drop(p, 1)) IN
  [v |-> [versionDigest |-> CellAt(p, 1), versionComponents |-> list.v], rest |-> list.rest]

WriteCheckResult(r) == <<r.isExistNewVersion>> \o WriteNewVersionInfo(r.newVersionInfo)
ReadCheckResult(p) ==
  LET info == ReadNewVersionInfo(Drop(p, 1)) IN
  [v |-> [isExistNewVersion |-> CellAt(p, 1), newVersionInfo |-> info.v], rest |-> info.rest]

WriteCurrentVersionInfo(info) ==
  <<info.osVersion, info.deviceName>> \o WriteVersionComponents(info.versionComponents)
ReadCurrentVersionInfo(p) ==
  LET list == ReadVersionComponents(Drop(p, 2)) IN
  [v    |-> [osVersion |-> CellAt(p, 1), deviceName |-> CellAt(p, 2),
             versionComponents |-> list.v],
   rest |-> list.rest]

WriteTaskBody(body) ==
  Cells(body, TaskHead) \o WriteErrorMessages(body.errorMessages)
    \o WriteVersionComponents(body.versionComponents)
\* Fault: the reader takes the components before the error messages.
ReadTaskBodySwapped(p) ==
  LET head == Struct(p, TaskHead)
      list == ReadVersionComponents(head.rest)
      errs == ReadErrorMessages(list.rest)
  IN  [v |-> head.v ++ [errorMessages |-> errs.v, versionComponents |-> list.v],
       rest |-> errs.rest]
ReadTaskBody(p) ==
  LET head == Struct(p, TaskHead)
      errs == ReadErrorMessages(head.rest)
      list == ReadVersionComponents(errs.rest)
  IN  [v |-> head.v ++ [errorMessages |-> errs.v, versionComponents |-> list.v],
       rest |-> list.rest]

WriteTaskInfo(info) == <<info.existTask>> \o WriteTaskBody(info.taskBody)
ReadTaskInfo(p) ==
  LET body == ReadTaskBody(Drop(p, 1)) IN
  [v |-> [existTask |-> CellAt(p, 1), taskBody |-> body.v], rest |-> body.rest]

WriteEventInfo(e) == <<e.eventId>> \o WriteTaskBody(e.taskBody)
ReadEventInfo(p) ==
  LET body == ReadTaskBody(Drop(p, 1)) IN
  [v |-> [eventId |-> CellAt(p, 1), taskBody |-> body.v], rest |-> body.rest]

\* The policy holds an array of exactly two periods: the reader fills those it is given.
WriteUpgradePolicy(policy) ==
  <<policy.downloadStrategy, policy.autoUpgradeStrategy>>
    \o WriteVector(policy.autoUpgradePeriods, UpgradePeriod)
ReadUpgradePolicy(p) ==
  LET list == ReadVector(Drop(p, 2), UpgradePeriod) IN
  [v    |-> [downloadStrategy |-> CellAt(p, 1), autoUpgradeStrategy |-> CellAt(p, 2),
             autoUpgradePeriods |-> [i \in 1..2 |-> IF i <= Len(list.v) THEN list.v[i]
                                                    ELSE [start |-> 0, end |-> 0]]],
   rest |-> list.rest]

WriteVersionDigestInfo(info) == Cells(info, VersionDigestInfo)
ReadVersionDigestInfo(p) == Struct(p, VersionDigestInfo)

WriteDescriptionOptions(o) == Cells(o, DescriptionOptions)
ReadDescriptionOptions(p) == Struct(p, DescriptionOptions)

WriteDownloadOptions(o) == Cells(o, DownloadOptions)
ReadDownloadOptions(p) == Struct(p, DownloadOptions)

WritePauseDownloadOptions(o) == Cells(o, PauseDownloadOptions)
ReadPauseDownloadOptions(p) == Struct(p, PauseDownloadOptions)

WriteResumeDownloadOptions(o) == Cells(o, ResumeDownloadOptions)
ReadResumeDownloadOptions(p) == Struct(p, ResumeDownloadOptions)

WriteUpgradeOptions(o) == Cells(o, UpgradeOptions)
ReadUpgradeOptions(p) == Struct(p, UpgradeOptions)

WriteClearOptions(o) == Cells(o, ClearOptions)
ReadClearOptions(p) == Struct(p, ClearOptions)
=============================================================================
