--------------------------- MODULE WinDriveProofs ---------------------------
(***************************************************************************)
(* Proofs about WinDrive, for any drives, ports, handles, objects and      *)
(* number of moves.                                                        *)
(***************************************************************************)
EXTENDS WinDrive, NaturalsInduction, WellFoundedInduction, TLAPS

Opening == {"open", "identify"} \cup Port
Merging == {"merge", "inquiry"}

Scanning == {"volumes"} \cup Volume

\* A step of enumVolumes.
Scans == EnumVolumes \/ (\E v \in Volume : OpenVolume(v)) \/ ReadExtents \/ VolumesEnd

Holds(h, w) == driver[h] # None /\ driver[h].handle = w

\* Accounted, handle by handle.
EachAccounted ==
  /\ \A w \in Hnd : open[w] # None <=> w \in Local \cup leaked \/ \E h \in Handles : Holds(h, w)
  /\ Local \cup leaked \subseteq Hnd
  /\ \A h \in Handles : driver[h] # None => driver[h].handle \in Hnd

LEMMA ByHandle ==
  ASSUME driver \in [Handles -> Driver \cup {None}]
  PROVE  Accounted <=> EachAccounted
  BY DEF Accounted, EachAccounted, Owned, Holds, Driver

\* What the invariants about handles need of the types.
TableOK ==
  /\ open \in [Hnd -> Drive \cup {None}]
  /\ driver \in [Handles -> Driver \cup {None}]
  /\ about \in [Handles -> Drive \cup {Blank, None}]

\* A handle that is closed or given to an object was not lost before.
Core == TableOK /\ OwnHandle /\ EachAccounted /\ Local \cap leaked = {}

\* An object about to get a driver tells nothing of a drive; one that is being
\* identified has its driver, and the thread has the driver's handle.
Frame ==
  /\ at \in [Num -> Drive \cup {None}] /\ behind \in [Port -> Drive \cup {None}]
  /\ alive \subseteq Handles /\ failed \in [Handles -> BOOLEAN]
  /\ number \in [Handles -> Int]
  /\ cur \in Handles /\ try \in Names \cup {"samsung"} /\ disk \in Num
  /\ ErrorAgrees
  /\ \A h \in Handles \ alive : driver[h] = None /\ about[h] = None /\ number[h] = -1
  /\ pc \in Port => try = "nvmeWin"
  /\ pc = "identify" => try \in Names
  /\ pc \in Opening => cur \notin alive
  /\ pc \in Merging => cur \in alive /\ ~failed[cur] /\ Holds(cur, wh)
  /\ Scratch \in alive => pc = "listing" \/ (pc \in Merging /\ cur = Scratch)

IInv == Core /\ Frame

\* Open objects keep their driver, and what they know of the drive.
SameHolders == driver' = driver /\ \A h \in Handles : driver[h] # None => about'[h] = about[h]

\* The places of enumVolumes are no others'.
LEMMA ScanningApart ==
  ASSUME NEW p \in Scanning
  PROVE  /\ p \notin Opening \cup Merging \cup Port
         /\ p \notin {"idle", "open", "identify", "merge", "inquiry", "listing", "finding", "enumerating"}
  BY WinAssumption DEF Scanning, Opening, Merging, Places

\* enumVolumes leaves handles, objects and drives alone.
LEMMA ScanStep ==
  ASSUME Scans
  PROVE  /\ pc \in {"idle"} \cup Scanning /\ pc' \in {"idle"} \cup Scanning
         /\ UNCHANGED <<machine, open, objVars, callVars, enumVars, history>>
  BY DEF Scans, Scanning, EnumVolumes, OpenVolume, ReadExtents, VolumesEnd

-----------------------------------------------------------------------------
(* What a step can do with handles *)

\* The path of the object that is not being opened is one of a disk.
LEMMA FirstDisk == Min(Num) \in Num
<1>1. Num \subseteq Nat /\ Num # {}
  BY WinAssumption
<1>2. PICK x \in Num : \A y \in Num : <<y, x>> \notin OpToRel(<, Nat)
  BY <1>1, NatLessThanWellFounded, WFMin
<1>3. ASSUME NEW y \in Num PROVE x <= y
  <2>1. ~(y < x)
    BY <1>1, <1>2 DEF OpToRel
  <2> QED BY <1>1, <2>1
<1> QED BY <1>3 DEF Min

\* Nothing.
LEMMA KeepStep ==
  ASSUME Core, SameHolders, open' = open, leaked' = leaked, Local' = Local,
         about' \in [Handles -> Drive \cup {Blank, None}]
  PROVE  Core'
  BY DEF Core, TableOK, OwnHandle, EachAccounted, SameHolders, Holds

\* Open one for itself.
LEMMA AcquireStep ==
  ASSUME Core, NEW d \in Drive, CreateFile(d), UNCHANGED <<driver, about, leaked>>,
         Local = {}, Local' = {wh'}
  PROVE  Core'
<1>1. wh' \in Hnd /\ open[wh'] = None /\ open' = [open EXCEPT ![wh'] = d]
  BY DEF CreateFile, Free
<1>2. wh' \notin leaked /\ \A h \in Handles : ~Holds(h, wh')
  BY <1>1 DEF Core, EachAccounted
<1>3. None \notin Drive
  BY WinAssumption
<1>4. TableOK'
  BY <1>1 DEF Core, TableOK
<1>5. OwnHandle'
  BY <1>1, <1>2, <1>3 DEF Core, TableOK, OwnHandle, EachAccounted, Holds
<1>6. EachAccounted'
  BY <1>1, <1>2, <1>3 DEF Core, TableOK, EachAccounted, Holds
<1> QED BY <1>2, <1>4, <1>5, <1>6 DEF Core

\* Close the one it has.
LEMMA DropStep ==
  ASSUME Core, SameHolders, CloseHandle(wh), leaked' = leaked, Local = {wh}, Local' = {},
         about' \in [Handles -> Drive \cup {Blank, None}]
  PROVE  Core'
<1>1. wh \in Hnd /\ open' = [open EXCEPT ![wh] = None] /\ wh \notin leaked
  BY DEF Core, EachAccounted, CloseHandle
<1>2. \A h \in Handles : ~Holds(h, wh)
  BY DEF Core, OwnHandle, Holds
<1>3. TableOK'
  BY <1>1 DEF Core, TableOK, SameHolders
<1>4. OwnHandle'
  BY <1>1, <1>2 DEF Core, TableOK, OwnHandle, EachAccounted, Holds, SameHolders
<1>5. EachAccounted'
  BY <1>1, <1>2 DEF Core, TableOK, EachAccounted, Holds, SameHolders
<1> QED BY <1>3, <1>4, <1>5 DEF Core

\* Give the one it has to an object that has none.
LEMMA HandOverStep ==
  ASSUME Core, try \in Names, cur \in Handles, driver[cur] = None,
         NEW id \in {open[wh], Blank}, about' = [about EXCEPT ![cur] = id],
         Become([name |-> try, handle |-> wh], FALSE),
         UNCHANGED <<open, leaked>>, Local = {wh}, Local' = {}
  PROVE  Core' /\ driver'[cur] # None /\ driver'[cur].handle = wh
<1> DEFINE new == [name |-> try, handle |-> wh]
<1>1. wh \in Hnd /\ wh \notin leaked /\ \A h \in Handles : ~Holds(h, wh)
  BY DEF Core, EachAccounted, OwnHandle, Holds
<1>2. new \in Driver /\ new # None /\ new.handle = wh
  <2>1. new \in Driver
    BY <1>1 DEF Driver
  <2> QED BY <2>1, WinAssumption
<1> HIDE DEF new
<1>3. driver' = [driver EXCEPT ![cur] = new]
  BY DEF Become, new
<1>4. TableOK'
  BY <1>1, <1>2, <1>3 DEF Core, TableOK
<1>5. /\ driver'[cur] = new /\ about'[cur] = id
      /\ \A h \in Handles \ {cur} : driver'[h] = driver[h] /\ about'[h] = about[h]
  BY <1>3 DEF Core, TableOK
<1>6. open[wh] # None
  BY <1>1 DEF Core, EachAccounted
<1>7. OwnHandle'
  BY <1>1, <1>2, <1>5, <1>6 DEF Core, OwnHandle, Holds
<1>8. EachAccounted'
  <2>1. \A h \in Handles, w \in Hnd : Holds(h, w)' <=> Holds(h, w) \/ (h = cur /\ w = wh)
    BY <1>2, <1>5 DEF Holds
  <2> QED BY <1>1, <1>2, <1>5, <2>1 DEF Core, EachAccounted
<1> QED BY <1>1, <1>2, <1>4, <1>5, <1>7, <1>8 DEF Core

\* Close an object's.
LEMMA CloseStep ==
  ASSUME Core, NEW h \in Handles, driver[h] # None, CloseHandle(driver[h].handle),
         driver' = [driver EXCEPT ![h] = None], UNCHANGED <<about, leaked>>, Local' = Local
  PROVE  Core'
<1> DEFINE w == driver[h].handle
<1>1. /\ w \in Hnd /\ w \notin leaked \cup Local
      /\ open' = [open EXCEPT ![w] = None]
  BY DEF Core, EachAccounted, OwnHandle, CloseHandle
<1>2. /\ driver'[h] = None
      /\ \A g \in Handles \ {h} : driver'[g] = driver[g] /\ ~Holds(g, w)
  BY DEF Core, TableOK, OwnHandle, Holds
<1> HIDE DEF w
<1>3. TableOK'
  BY <1>1 DEF Core, TableOK
<1>4. OwnHandle'
  BY <1>1, <1>2 DEF Core, TableOK, OwnHandle, EachAccounted, Holds
<1>5. EachAccounted'
  <2>1. \A g \in Handles, e \in Hnd : Holds(g, e)' <=> Holds(g, e) /\ e # w
    BY <1>2 DEF Holds, w
  <2> QED BY <1>1, <1>2, <2>1 DEF Core, TableOK, EachAccounted
<1> QED BY <1>1, <1>3, <1>4, <1>5 DEF Core

\* Lose an object's with the object.
LEMMA BuryStep ==
  ASSUME Core, NEW h \in Handles, Bury(h), open' = open, Local' = {}, Local = {}
  PROVE  Core'
<1>1. /\ driver' = [driver EXCEPT ![h] = None]
      /\ about' = [about EXCEPT ![h] = None]
      /\ leaked' = IF driver[h] = None THEN leaked ELSE leaked \cup {driver[h].handle}
  BY DEF Bury
<1>2. /\ driver'[h] = None
      /\ \A g \in Handles \ {h} : driver'[g] = driver[g] /\ about'[g] = about[g]
  BY <1>1 DEF Core, TableOK
<1>3. TableOK'
  BY <1>1 DEF Core, TableOK
<1>4. OwnHandle'
  BY <1>1, <1>2 DEF Core, OwnHandle
<1>5. EachAccounted'
  <2>1. \A e : e \in leaked' <=> e \in leaked \/ Holds(h, e)
    BY <1>1 DEF Holds
  <2>2. \A g \in Handles, e \in Hnd : Holds(g, e)' <=> Holds(g, e) /\ g # h
    BY <1>2 DEF Holds
  <2> QED BY <1>2, <2>1, <2>2 DEF Core, EachAccounted, Holds
<1> QED BY <1>3, <1>4, <1>5 DEF Core

-----------------------------------------------------------------------------
(* The rest of the invariant *)

\* A driver failed: the next one is tried, or the open() ends.
LEMMA NextDriverStep ==
  ASSUME Core, Frame, pc \in Opening, NextDriver, UNCHANGED <<machine, about, number>>
  PROVE  /\ Frame' /\ SameHolders /\ Local' = {}
         /\ about' \in [Handles -> Drive \cup {Blank, None}]
<1> cur \in Handles /\ cur \notin alive /\ driver[cur] = None
  BY DEF Frame
<1>1. CASE try = "ata" /\ Become(None, TRUE) /\ Return
  <2>1. /\ driver' = driver /\ alive' = alive \cup {cur}
        /\ failed' = [failed EXCEPT ![cur] = TRUE]
    BY <1>1 DEF Become, Core, TableOK
  <2>2. /\ pc' = IF cur = Scratch THEN "listing" ELSE "idle"
        /\ cur' = Scratch /\ try' = "nvmeWin"
    BY <1>1 DEF Return
  <2>3. pc' \notin Opening \cup Merging /\ Local' = {}
    BY <2>2, WinAssumption DEF Opening, Merging, Local, Places
  <2>4. /\ failed' \in [Handles -> BOOLEAN]
        /\ \A h \in Handles \ {cur} : failed'[h] = failed[h]
    BY <2>1 DEF Frame
  <2>5. ErrorAgrees'
    BY <2>1, <2>4 DEF Frame, ErrorAgrees
  <2>6. Scratch \in alive' => pc' = "listing"
    BY <2>1, <2>2, WinAssumption DEF Frame, Opening, Merging, Places
  <2>7. pc' \notin Port
    BY <2>3 DEF Opening
  <2>8. cur' \in Handles /\ disk' \in Num
    BY <1>1, <2>2, FirstDisk DEF Handles, Return, Frame
  <2>9. Frame'
    BY <2>1, <2>2, <2>3, <2>4, <2>5, <2>6, <2>7, <2>8 DEF Frame, Names, machine, Opening
  <2> QED BY <2>1, <2>3, <2>9 DEF SameHolders, Core, TableOK
<1>2. CASE /\ try # "ata" /\ try' = After(try) /\ pc' = "open" /\ wh' = None
           /\ UNCHANGED <<alive, driver, failed, cur, disk, calm>>
  <2>1. try' \in Names \cup {"samsung"}
    BY <1>2 DEF Frame, Names, After
  <2>2. Local' = {} /\ pc' \notin Port /\ pc' # "identify" /\ pc' \notin Merging
    BY <1>2, WinAssumption DEF Local, Places, Merging
  <2>3. Scratch \notin alive
    BY WinAssumption DEF Frame, Opening, Merging, Places
  <2>4. Frame'
    BY <1>2, <2>1, <2>2, <2>3 DEF Frame, machine, ErrorAgrees
  <2> QED BY <1>2, <2>2, <2>4 DEF SameHolders, Core, TableOK
<1> QED BY <1>1, <1>2 DEF NextDriver

\* An object goes out of scope.
LEMMA BuryFrame ==
  ASSUME Core, Frame, NEW h \in Handles, Bury(h), UNCHANGED <<machine, cur, try>>, disk' \in Num,
         pc' \notin Opening \cup Merging, Scratch \in alive' => pc' = "listing"
  PROVE  Frame'
<1>1. /\ alive' = alive \ {h}
      /\ failed' = [failed EXCEPT ![h] = FALSE]
      /\ number' = [number EXCEPT ![h] = -1]
      /\ \A g \in Handles \ {h} : driver'[g] = driver[g] /\ about'[g] = about[g]
      /\ driver'[h] = None /\ about'[h] = None
  BY DEF Bury, Core, TableOK
<1>2. /\ failed' \in [Handles -> BOOLEAN] /\ number' \in [Handles -> Int]
      /\ ~failed'[h] /\ number'[h] = -1
      /\ \A g \in Handles \ {h} : failed'[g] = failed[g] /\ number'[g] = number[g]
  BY <1>1 DEF Frame
<1>3. ErrorAgrees'
  BY <1>1, <1>2 DEF ErrorAgrees, Frame
<1>4. \A g \in Handles \ alive' : driver'[g] = None /\ about'[g] = None /\ number'[g] = -1
  BY <1>1, <1>2 DEF Frame
<1>5. alive' \subseteq Handles
  BY <1>1 DEF Frame
<1>6. pc' \notin Port /\ pc' # "identify" /\ pc' \notin Opening /\ pc' \notin Merging
  BY DEF Opening
<1>7. /\ at' \in [Num -> Drive \cup {None}] /\ behind' \in [Port -> Drive \cup {None}]
      /\ cur' \in Handles /\ try' \in Names \cup {"samsung"} /\ disk' \in Num
  BY DEF Frame, machine
<1> QED BY <1>2, <1>3, <1>4, <1>5, <1>6, <1>7 DEF Frame

-----------------------------------------------------------------------------
(* The steps *)

LEMMA InitInv ==
  ASSUME Init
  PROVE  IInv
<1>1. Local = {} /\ \A h \in Handles : driver[h] = None
  BY DEF Init, Local
<1>2. Core
  BY <1>1 DEF Init, Core, TableOK, OwnHandle, EachAccounted, Holds
<1>3. disk \in Num /\ pc = "idle" /\ pc \notin Opening \cup Merging \cup Port
  BY WinAssumption, FirstDisk DEF Init, Opening, Merging, Places
<1>4. Frame
  BY <1>1, <1>3 DEF Init, Frame, ErrorAgrees, Handles, Names
<1> QED BY <1>2, <1>4 DEF IInv

\* A step that leaves handles and objects alone.
LEMMA QuietStep ==
  ASSUME Core, UNCHANGED <<open, objVars, leaked>>, Local' = Local
  PROVE  Core'
  BY KeepStep DEF objVars, SameHolders, Core, TableOK

\* A step outside an open() that leaves them alone, or begins one.
LEMMA QuietFrame ==
  ASSUME Frame, UNCHANGED <<objVars, machine>>, cur' \in Handles, try' \in Names \cup {"samsung"}, disk' \in Num,
         pc' \notin Port \cup Merging \cup {"identify"},
         pc' = "open" => cur' \notin alive,
         Scratch \in alive => pc' = "listing"
  PROVE  Frame'
  BY DEF Frame, objVars, machine, ErrorAgrees, Opening

\* The driver gets as far as the identification.
LEMMA AtIdentify ==
  ASSUME Core, Frame, pc \in Opening, pc # "identify", NEW d \in Drive, CreateFile(d),
         pc' = "identify", try \in Names, UNCHANGED <<machine, objVars, cur, try, disk, leaked>>
  PROVE  IInv'
<1>1. Local = {} /\ Local' = {wh'}
  BY DEF Local
<1>2. Core'
  BY <1>1, AcquireStep DEF objVars
<1>3. pc' \notin Port \cup Merging
  BY WinAssumption DEF Merging, Places
<1>4. Scratch \notin alive
  BY WinAssumption DEF Frame, Opening, Merging, Places
<1>5. Frame'
  BY <1>3, <1>4 DEF Frame, objVars, machine, ErrorAgrees
<1> QED BY <1>2, <1>5 DEF IInv

\* The driver fails without a handle.
LEMMA FailStep ==
  ASSUME Core, Frame, pc \in Opening, pc # "identify", NextDriver,
         UNCHANGED <<machine, open, about, number, leaked>>
  PROVE  IInv'
<1>1. Local = {}
  BY DEF Local
<1>2. /\ Frame' /\ SameHolders /\ Local' = {}
      /\ about' \in [Handles -> Drive \cup {Blank, None}]
  BY NextDriverStep
<1>3. Core'
  BY <1>1, <1>2, KeepStep
<1> QED BY <1>2, <1>3 DEF IInv

LEMMA DriverStep ==
  ASSUME Core, Frame, GetScsiPath \/ OpenPort \/ Samsung \/ OpenDrive
  PROVE  IInv'
<1>1. CASE GetScsiPath
  <2>1. /\ pc = "open" /\ UNCHANGED <<machine, open, about, number, leaked>>
        /\ pc \in Opening /\ pc # "identify"
    BY <1>1 DEF GetScsiPath, Opening
  <2>2. ASSUME NEW p \in Port, pc' = p, UNCHANGED <<alive, driver, failed, callVars, calm>>
        PROVE  IInv'
    <3>1. Local = {} /\ Local' = {} /\ try' = "nvmeWin" /\ cur' = cur /\ disk' = disk
      BY <1>1, <2>1, <2>2, WinAssumption DEF Local, callVars, Places, GetScsiPath
    <3>2. Core'
      BY <2>1, <2>2, <3>1, QuietStep DEF objVars
    <3>3. pc' \notin Merging /\ pc' # "identify" /\ Scratch \notin alive
      BY <2>1, <2>2, WinAssumption DEF Merging, Places, Frame, Opening
    <3>4. Frame'
      BY <2>1, <2>2, <3>1, <3>3 DEF Frame, machine, ErrorAgrees, Names
    <3> QED BY <3>2, <3>4 DEF IInv
  <2>3. CASE NextDriver
    BY <2>1, <2>3, FailStep
  <2> QED BY <1>1, <2>2, <2>3 DEF GetScsiPath
<1>2. CASE OpenPort
  <2>1. /\ pc \in Port /\ UNCHANGED <<machine, about, number, leaked>>
        /\ pc \in Opening /\ pc # "identify" /\ try \in Names
    BY <1>2, WinAssumption DEF OpenPort, Opening, Places, Frame, Names
  <2>2. CASE /\ behind[pc] # None /\ CreateFile(behind[pc]) /\ pc' = "identify"
             /\ UNCHANGED <<alive, driver, failed, cur, try, disk, calm>>
    <3>1. behind[pc] \in Drive
      BY <2>1, <2>2 DEF Frame
    <3> QED BY <2>1, <2>2, <3>1, AtIdentify DEF objVars
  <2>3. CASE NextDriver /\ UNCHANGED open
    BY <2>1, <2>3, FailStep
  <2> QED BY <1>2, <2>2, <2>3 DEF OpenPort
<1>3. CASE Samsung
  BY <1>3, FailStep DEF Samsung, Opening
<1>4. CASE OpenDrive
  <2>1. /\ pc = "open" /\ UNCHANGED <<machine, about, number, leaked>>
        /\ pc \in Opening /\ pc # "identify" /\ try \in Names
    BY <1>4 DEF OpenDrive, Opening, Names
  <2>2. CASE /\ at[disk] # None /\ CreateFile(at[disk]) /\ pc' = "identify"
             /\ UNCHANGED <<alive, driver, failed, cur, try, disk, calm>>
    <3>1. at[disk] \in Drive
      BY <2>2 DEF Frame
    <3> QED BY <2>1, <2>2, <3>1, AtIdentify DEF objVars
  <2>3. CASE NextDriver /\ UNCHANGED open
    BY <2>1, <2>3, FailStep
  <2> QED BY <1>4, <2>2, <2>3 DEF OpenDrive
<1> QED BY <1>1, <1>2, <1>3, <1>4

LEMMA IdentifyStep ==
  ASSUME Core, Frame, Identify
  PROVE  IInv'
<1>1. /\ pc = "identify" /\ UNCHANGED <<machine, number, leaked>>
      /\ pc \in Opening /\ try \in Names /\ Local = {wh}
      /\ cur \in Handles /\ cur \notin alive /\ driver[cur] = None
  BY DEF Identify, Opening, Frame, Local
<1>2. CASE Identified
  <2>1. PICK id \in Identifications(open[wh]) : about' = [about EXCEPT ![cur] = id]
    BY <1>2 DEF Identified
  <2>2. id \in {open[wh], Blank}
    BY <1>1 DEF Identifications, Names
  <2>3. /\ Become([name |-> try, handle |-> wh], FALSE) /\ pc' = "merge"
        /\ UNCHANGED <<open, cur, try, disk, wh>> /\ Local' = {}
    BY <1>2 DEF Identified, callVars, Local
  <2>4. Core' /\ driver'[cur] # None /\ driver'[cur].handle = wh
    BY <1>1, <2>1, <2>2, <2>3, HandOverStep
  <2>5. /\ alive' = alive \cup {cur} /\ failed' = [failed EXCEPT ![cur] = FALSE]
        /\ \A h \in Handles \ {cur} : driver'[h] = driver[h] /\ about'[h] = about[h]
    BY <2>1, <2>3 DEF Become, Core, TableOK
  <2>6. /\ failed' \in [Handles -> BOOLEAN] /\ ~failed'[cur]
        /\ \A h \in Handles \ {cur} : failed'[h] = failed[h]
    BY <1>1, <2>5 DEF Frame
  <2>7. ErrorAgrees'
    BY <1>1, <2>5, <2>6 DEF ErrorAgrees, Frame
  <2>8. pc' \in Merging /\ pc' \notin Opening /\ pc' \notin Port /\ pc' # "identify"
    BY <2>3, WinAssumption DEF Merging, Opening, Places
  <2>9. Scratch \in alive' => cur = Scratch
    BY <1>1, <2>5, WinAssumption DEF Frame, Merging
  <2>10. Holds(cur, wh)'
    BY <2>3, <2>4 DEF Holds
  <2>11. Frame'
    BY <1>1, <2>3, <2>5, <2>6, <2>7, <2>8, <2>9, <2>10 DEF Frame, machine
  <2> QED BY <2>4, <2>11 DEF IInv
<1>3. CASE CloseHandle(wh) /\ NextDriver /\ UNCHANGED about
  <2>1. /\ Frame' /\ SameHolders /\ Local' = {}
        /\ about' \in [Handles -> Drive \cup {Blank, None}]
    BY <1>1, <1>3, NextDriverStep
  <2>2. Core'
    BY <1>1, <1>3, <2>1, DropStep
  <2> QED BY <2>1, <2>2 DEF IInv
<1> QED BY <1>2, <1>3 DEF Identify

LEMMA MergeStep ==
  ASSUME Core, Frame, Merge \/ Inquiry
  PROVE  IInv'
<1>1. /\ pc \in Merging /\ UNCHANGED <<machine, open, alive, driver, failed, leaked>>
      /\ Local = {}
  BY DEF Merge, Inquiry, Merging, Local
<1>2. cur \in alive /\ cur \in Handles /\ ~failed[cur] /\ Holds(cur, wh)
  BY <1>1 DEF Frame
<1>3. /\ \A h \in Handles \ {cur} : about'[h] = about[h] /\ number'[h] = number[h]
      /\ about'[cur] \in {about[cur], open[wh]}
      /\ about' \in [Handles -> Drive \cup {Blank, None}]
      /\ number' \in [Handles -> Int]
  <2>1. CASE Merge
    <3>1. PICK n \in {-1} \cup Numbers(open[wh]) :
            number' = [number EXCEPT ![cur] = IF try = "nvmeWin" THEN disk ELSE n]
      BY <2>1 DEF Merge
    <3>2. n \in Int /\ disk \in Int
      BY <3>1, WinAssumption DEF Numbers, Frame
    <3>3. about' = about
      BY <2>1 DEF Merge
    <3> QED BY <1>2, <3>1, <3>2, <3>3 DEF Frame, Core, TableOK
  <2>2. CASE Inquiry
    <3>1. open[wh] \in Drive \cup {None}
      BY <1>2 DEF Holds, Core, TableOK, EachAccounted
    <3>2. number' = number /\ (about' = about \/ about' = [about EXCEPT ![cur] = open[wh]])
      BY <2>2 DEF Inquiry
    <3> QED BY <1>2, <3>1, <3>2 DEF Frame, Core, TableOK
  <2> QED BY <2>1, <2>2
<1>4. TableOK' /\ OwnHandle'
  <2>1. Local' = {} /\ UNCHANGED <<open, driver, leaked>>
    BY <1>1 DEF Merge, Inquiry, Return, Local
  <2>2. ASSUME NEW h \in Handles, driver[h] # None
        PROVE  about'[h] \in {open[driver[h].handle], Blank}
    BY <1>2, <1>3, <2>2 DEF Core, OwnHandle, Holds
  <2> QED BY <1>1, <1>3, <2>1, <2>2 DEF Core, TableOK, OwnHandle
<1>5. EachAccounted' /\ (Local \cap leaked = {})'
  <2>1. Local' = {}
    BY DEF Merge, Inquiry, Return, Local
  <2> QED BY <1>1, <2>1 DEF Core, EachAccounted, Holds
<1>6. ErrorAgrees'
  BY <1>1, <1>2, <1>3 DEF Frame, ErrorAgrees
<1>7. \A h \in Handles \ alive' : driver'[h] = None /\ about'[h] = None /\ number'[h] = -1
  BY <1>1, <1>2, <1>3 DEF Frame
<1>8. CASE pc' = "inquiry" /\ UNCHANGED callVars
  <2>1. pc' \in Merging /\ pc' \notin Port \cup Opening /\ pc' # "identify"
    BY <1>8, WinAssumption DEF Merging, Opening, Places
  <2>2. Scratch \in alive => cur = Scratch
    BY <1>1 DEF Frame, Merging
  <2>3. Frame'
    BY <1>1, <1>3, <1>6, <1>7, <1>8, <2>1, <2>2 DEF Frame, callVars, machine, Holds
  <2> QED BY <1>4, <1>5, <2>3 DEF IInv, Core
<1>9. CASE Return
  <2>1. /\ pc' = IF cur = Scratch THEN "listing" ELSE "idle"
        /\ cur' = Scratch /\ try' = "nvmeWin" /\ disk' \in Num
    BY <1>9, FirstDisk DEF Return, Frame
  <2>2. pc' \notin Port \cup Opening \cup Merging /\ pc' # "identify"
    BY <2>1, WinAssumption DEF Merging, Opening, Places
  <2>3. Scratch \in alive => pc' = "listing"
    BY <1>1, <2>1 DEF Frame, Merging
  <2>4. cur' \in Handles /\ try' \in Names
    BY <2>1 DEF Handles, Names
  <2>5. Frame'
    BY <1>1, <1>3, <1>6, <1>7, <2>1, <2>2, <2>3, <2>4 DEF Frame, machine
  <2> QED BY <1>4, <1>5, <2>5 DEF IInv, Core
<1> QED BY <1>8, <1>9 DEF Merge, Inquiry

LEMMA ObjectStep ==
  ASSUME Core, Frame, NEW h \in Object, Close(h) \/ Destroy(h)
  PROVE  IInv'
<1> h \in Handles
  BY DEF Handles
<1>1. CASE Close(h)
  <2>1. /\ UNCHANGED <<machine, alive, failed, about, number, pc, cur, try, disk, wh, leaked>>
        /\ pc = "idle" /\ Local = {} /\ Local' = {}
    BY <1>1 DEF Close, Local, callVars, history
  <2>2. Core'
    BY <1>1, <2>1, CloseStep DEF Close
  <2>3. \A g \in Handles : driver'[g] \in {None, driver[g]}
    BY <1>1 DEF Close, Core, TableOK
  <2>4. ErrorAgrees' /\ \A g \in Handles \ alive : driver'[g] = None
    BY <2>1, <2>3 DEF Frame, ErrorAgrees
  <2>5. pc \notin Merging
    BY <2>1 DEF Merging
  <2>6. Frame'
    BY <2>1, <2>4, <2>5 DEF Frame, machine
  <2> QED BY <2>2, <2>6 DEF IInv
<1>2. CASE Destroy(h)
  <2>1. /\ UNCHANGED <<machine, open, cur, try, disk, wh>> /\ Bury(h)
        /\ Local = {} /\ Local' = {} /\ pc' = "idle" /\ pc = "idle"
    BY <1>2 DEF Destroy, Local, callVars
  <2>2. Scratch \notin alive' /\ pc' \notin Opening \cup Merging /\ disk' \in Num
    BY <2>1, WinAssumption DEF Frame, Bury, Merging, Opening, Places
  <2>3. Core'
    BY <2>1, BuryStep
  <2>4. Frame'
    BY <2>1, <2>2, BuryFrame
  <2> QED BY <2>3, <2>4 DEF IInv
<1> QED BY <1>1, <1>2

\* The disks to be opened have numbers.
DevicesOK == devices \subseteq Num

LEMMA DevicesStep ==
  ASSUME DevicesOK, [Next]_vars
  PROVE  DevicesOK'
<1>1. CASE FindDevice
  BY <1>1 DEF FindDevice, Numbers, DevicesOK
<1>2. CASE OpenDevice
  BY <1>2 DEF OpenDevice, DevicesOK
<1>3. CASE UNCHANGED devices
  BY <1>3 DEF DevicesOK
<1>4. CASE \/ \E h \in Object, n \in Num : Open(h, n)
           \/ GetScsiPath \/ OpenPort \/ Samsung \/ OpenDrive \/ Identify \/ Merge \/ Inquiry
           \/ \E h \in Object : Close(h) \/ Destroy(h)
  BY <1>3, <1>4 DEF Open, GetScsiPath, OpenPort, Samsung, OpenDrive, Identify, Merge, Inquiry, Close,
                    Destroy, enumVars
<1>5. CASE \/ EnumDrives \/ Found \/ List \/ EnumReturns \/ UNCHANGED vars
           \/ \E n \in Num : Unplug(n) \/ \E p \in Port, d \in Drive : Plug(n, p, d)
  BY <1>3, <1>5 DEF EnumDrives, Found, List, EnumReturns, Unplug, Plug, Move, vars, enumVars
<1>6. CASE Scans
  BY <1>3, <1>6, ScanStep DEF enumVars
<1> QED BY <1>1, <1>2, <1>4, <1>5, <1>6 DEF Next, Scans

LEMMA EnumStep ==
  ASSUME Core, Frame, DevicesOK,
         \/ \E h \in Object, n \in Num : Open(h, n)
         \/ EnumDrives \/ FindDevice \/ Found \/ OpenDevice \/ EnumReturns
  PROVE  IInv'
<1>1. /\ UNCHANGED <<machine, open, objVars, leaked>> /\ Local = {}
      /\ pc \in {"idle", "finding", "enumerating"}
  BY DEF Open, EnumDrives, FindDevice, Found, OpenDevice, EnumReturns, Local, history
<1>2. Scratch \notin alive
  BY <1>1 DEF Frame, Merging
<1>3. \/ /\ pc' \in {"idle", "finding", "enumerating"}
         /\ UNCHANGED callVars
      \/ /\ pc' = "open" /\ cur' \in Handles \ alive
         /\ try' = "nvmeWin" /\ disk' \in Num
  <2>1. ASSUME NEW h \in Object, NEW n \in Num, Open(h, n)
        PROVE  pc' = "open" /\ cur' \in Handles \ alive /\ try' = "nvmeWin" /\ disk' \in Num
    BY <2>1 DEF Open, Call, Handles
  <2>2. CASE OpenDevice
    <3>1. PICK n \in devices : Call(Scratch, n)
      BY <2>2 DEF OpenDevice
    <3> QED BY <1>2, <3>1 DEF Call, Handles, DevicesOK
  <2>3. CASE EnumDrives \/ FindDevice \/ Found \/ EnumReturns
    BY <1>1, <2>3 DEF EnumDrives, FindDevice, Found, EnumReturns
  <2> QED BY <2>1, <2>2, <2>3
<1>4. /\ cur' \in Handles /\ try' \in Names \cup {"samsung"} /\ disk' \in Num
      /\ pc' \notin Port \cup Merging \cup {"identify"}
      /\ (pc' = "open" => cur' \notin alive) /\ Local' = {}
  BY <1>3, WinAssumption DEF callVars, Frame, Names, Merging, Places, Local
<1>5. Core'
  BY <1>1, <1>4, QuietStep
<1>6. Frame'
  BY <1>1, <1>2, <1>4, QuietFrame
<1> QED BY <1>5, <1>6 DEF IInv

LEMMA VolumesStep ==
  ASSUME Core, Frame, Scans
  PROVE  IInv'
<1>1. /\ pc \in {"idle"} \cup Scanning /\ pc' \in {"idle"} \cup Scanning
      /\ UNCHANGED <<machine, open, objVars, cur, try, disk, wh, leaked>>
  BY ScanStep DEF callVars, history
<1>2. \A p \in {"idle"} \cup Scanning :
        p \notin Port \cup Merging \cup {"identify", "open", "listing"}
  BY ScanningApart, WinAssumption DEF Merging, Places
<1>3. Local = {} /\ Local' = {} /\ Scratch \notin alive
  BY <1>1, <1>2 DEF Local, Frame
<1>4. Core'
  BY <1>1, <1>3, QuietStep
<1>5. cur \in Handles /\ try \in Names \cup {"samsung"} /\ disk \in Num
  BY DEF Frame
<1>6. Frame'
  BY <1>1, <1>2, <1>3, <1>5, QuietFrame
<1> QED BY <1>4, <1>6 DEF IInv

LEMMA ListStep ==
  ASSUME Core, Frame, List
  PROVE  IInv'
<1>1. /\ UNCHANGED <<machine, open, cur, try>> /\ Bury(Scratch) /\ Scratch \in Handles
      /\ Local = {} /\ Local' = {} /\ pc' = "enumerating" /\ disk' \in Num
  BY FirstDisk DEF List, Local, Handles
<1>2. Scratch \notin alive' /\ pc' \notin Opening \cup Merging
  BY <1>1, WinAssumption DEF Bury, Merging, Opening, Places
<1>3. Core'
  BY <1>1, BuryStep
<1>4. Frame'
  BY <1>1, <1>2, BuryFrame
<1> QED BY <1>3, <1>4 DEF IInv

LEMMA MachineStep ==
  ASSUME Core, Frame, NEW n \in Num, Unplug(n) \/ \E p \in Port, d \in Drive : Plug(n, p, d)
  PROVE  IInv'
<1>1. UNCHANGED <<open, objVars, pc, cur, try, disk, wh, leaked>> /\ Local' = Local
  BY DEF Unplug, Plug, Move, callVars, Local
<1>2. at' \in [Num -> Drive \cup {None}] /\ behind' \in [Port -> Drive \cup {None}]
  <2>1. CASE Unplug(n)
    BY <2>1 DEF Unplug, Frame
  <2>2. ASSUME NEW p \in Port, NEW d \in Drive, Plug(n, p, d)
        PROVE  at' \in [Num -> Drive \cup {None}] /\ behind' \in [Port -> Drive \cup {None}]
    BY <2>2 DEF Plug, Frame
  <2> QED BY <2>1, <2>2
<1>3. Frame'
  BY <1>1, <1>2 DEF Frame, objVars, ErrorAgrees, Holds
<1> QED BY <1>1, <1>3, QuietStep DEF IInv

LEMMA Step ==
  ASSUME IInv, DevicesOK, [Next]_vars
  PROVE  IInv'
<1> Core /\ Frame
  BY DEF IInv
<1>1. CASE UNCHANGED vars
  <2>1. /\ UNCHANGED <<machine, open, objVars, pc, cur, try, disk, wh, leaked>>
        /\ Local' = Local
    BY <1>1 DEF vars, callVars, history, Local
  <2>2. Frame'
    BY <2>1 DEF Frame, machine, objVars, ErrorAgrees, Holds
  <2> QED BY <2>1, <2>2, QuietStep DEF IInv
<1>2. CASE Next
  BY <1>2, DriverStep, IdentifyStep, MergeStep, ObjectStep, EnumStep, VolumesStep, ListStep, MachineStep
     DEF Next, Scans
<1> QED BY <1>1, <1>2

\* The invariant holds however the program opens, enumerates, closes and
\* destroys, and whenever drives come and go.
THEOREM Invariance == Spec => []IInv
<1>1. Init => IInv
  BY InitInv
<1>2. IInv /\ DevicesOK /\ [Next]_vars => IInv'
  BY Step
<1>3. Init => DevicesOK
  BY DEF Init, DevicesOK
<1>4. DevicesOK /\ [Next]_vars => DevicesOK'
  BY DevicesStep
<1> QED BY <1>1, <1>2, <1>3, <1>4, PTL DEF Spec

\* An open object has a handle of its own, open on the drive that its
\* drive_info_ names or on one that gave no identification, however handles
\* were reused and numbers and ports changed hands.
THEOREM HandleIsOwn == Spec => []OwnHandle
<1>1. IInv => OwnHandle
  BY DEF IInv, Core
<1> QED BY <1>1, Invariance, PTL

\* Five drivers may fail in turn: handles are lost only with objects that are
\* destroyed while open.
THEOREM AllAccounted == Spec => []Accounted
<1>1. IInv => Accounted
  BY ByHandle DEF IInv, Core, TableOK
<1> QED BY <1>1, Invariance, PTL

\* An object that failed to open has no driver and tells nothing of a drive.
THEOREM ErrorsAgree == Spec => []ErrorAgrees
<1>1. IInv => ErrorAgrees
  BY DEF IInv, Frame
<1> QED BY <1>1, Invariance, PTL

\* The variables have their types: from the invariant.
THEOREM TypeCorrect == Spec => []TypeOK
<1>1. IInv => TypeOK
  BY DEF IInv, Core, TableOK, EachAccounted, Frame, TypeOK
<1> QED BY <1>1, Invariance, PTL

-----------------------------------------------------------------------------
(* The disk number *)

\* While no drive is moved, the port leads to the drive in the path.
CalmInv ==
  calm /\ try = "nvmeWin" =>
    /\ pc \in Port => behind[pc] = at[disk]
    /\ pc \in {"identify", "merge"} => open[wh] = at[disk]

LEMMA NextDriverCalm ==
  ASSUME NextDriver
  PROVE  CalmInv'
<1>1. CASE Return
  <2>1. pc' \notin Port /\ pc' \notin {"identify", "merge"}
    BY <1>1, WinAssumption DEF Return, Places
  <2> QED BY <2>1 DEF CalmInv
<1>2. CASE try' = After(try) /\ try # "ata" /\ pc' = "open"
  <2>1. pc' \notin Port /\ pc' \notin {"identify", "merge"}
    BY <1>2, WinAssumption DEF Places
  <2> QED BY <2>1 DEF CalmInv
<1> QED BY <1>1, <1>2 DEF NextDriver

LEMMA CalmStep ==
  ASSUME IInv, CalmInv, [Next]_vars
  PROVE  CalmInv'
<1>1. CASE GetScsiPath
  <2>1. ASSUME NEW p \in Port, behind[p] = at[disk], pc' = p, UNCHANGED <<machine, callVars>>
        PROVE  CalmInv'
    <3>1. pc' \notin {"identify", "merge"}
      BY <2>1, WinAssumption DEF Places
    <3> QED BY <2>1, <3>1 DEF CalmInv, machine, callVars
  <2> QED BY <1>1, <2>1, NextDriverCalm DEF GetScsiPath
<1>2. CASE OpenPort
  <2>1. ASSUME NEW w \in Hnd, wh' = w, open' = [open EXCEPT ![w] = behind[pc]], pc' = "identify",
               UNCHANGED <<machine, try, disk, calm>>
        PROVE  CalmInv'
    <3>1. open'[wh'] = behind[pc] /\ pc \in Port
      BY <1>2, <2>1 DEF OpenPort, IInv, Core, TableOK
    <3>2. pc' \notin Port
      BY <2>1, WinAssumption DEF Places
    <3> QED BY <2>1, <3>1, <3>2 DEF CalmInv, machine
  <2> QED BY <1>2, <2>1, NextDriverCalm DEF OpenPort, CreateFile, Free
<1>3. CASE Samsung
  BY <1>3, NextDriverCalm DEF Samsung
<1>4. CASE OpenDrive
  <2>1. ASSUME pc' = "identify", try' = try
        PROVE  CalmInv'
    <3>1. try' # "nvmeWin"
      BY <1>4, <2>1 DEF OpenDrive
    <3> QED BY <3>1 DEF CalmInv
  <2> QED BY <1>4, <2>1, NextDriverCalm DEF OpenDrive
<1>5. CASE Identify
  <2>1. ASSUME Identified, UNCHANGED machine
        PROVE  CalmInv'
    <3>1. pc' \notin Port
      BY <2>1, WinAssumption DEF Identified, Places
    <3>2. pc = "identify"
      BY <1>5 DEF Identify
    <3> QED BY <2>1, <3>1, <3>2 DEF CalmInv, Identified, machine, callVars
  <2> QED BY <1>5, <2>1, NextDriverCalm DEF Identify
<1>6. CASE Merge \/ Inquiry
  <2>1. pc' \in {"inquiry", "listing", "idle"}
    BY <1>6 DEF Merge, Inquiry, Return
  <2> QED BY <2>1, WinAssumption DEF CalmInv, Places
<1>7. CASE \/ \E h \in Object, n \in Num : Open(h, n)
           \/ EnumDrives \/ FindDevice \/ Found \/ OpenDevice \/ List \/ EnumReturns
           \/ \E h \in Object : Close(h) \/ Destroy(h)
  <2>1. pc' \in {"idle", "open", "finding", "enumerating"}
    BY <1>7 DEF Open, Call, EnumDrives, FindDevice, Found, OpenDevice, List, EnumReturns, Close, Destroy
  <2> QED BY <2>1, WinAssumption DEF CalmInv, Places
<1>8. CASE \E n \in Num : Unplug(n) \/ \E p \in Port, d \in Drive : Plug(n, p, d)
  <2>1. /\ pc' = pc
        /\ calm' => pc \in {"idle", "listing", "finding", "enumerating"} \cup Scanning
    BY <1>8 DEF Unplug, Plug, Move, Scanning
  <2>2. calm' => pc' \notin Port \cup {"identify", "merge"}
    BY <2>1, ScanningApart, WinAssumption DEF Places
  <2> QED BY <2>2 DEF CalmInv
<1>9. CASE UNCHANGED vars
  BY <1>9 DEF vars, machine, callVars, history, CalmInv
<1>10. CASE Scans
  <2>1. pc' \notin Port \cup {"identify", "merge"}
    BY <1>10, ScanStep, ScanningApart, WinAssumption DEF Places
  <2> QED BY <2>1 DEF CalmInv
<1> QED BY <1>1, <1>2, <1>3, <1>4, <1>5, <1>6, <1>7, <1>8, <1>9, <1>10 DEF Next, Scans

NumberStep ==
  \A h \in Handles :
    /\ number'[h] # number[h] /\ number'[h] # -1
    /\ calm \/ try # "nvmeWin"
    => at[number'[h]] = open[driver[h].handle]

LEMMA NumberStepHolds ==
  ASSUME IInv, CalmInv, [Next]_vars
  PROVE  NumberStep
<1>1. CASE Merge
  <2>1. /\ pc \in Merging /\ pc = "merge"
    BY <1>1 DEF Merge, Merging
  <2>2. cur \in Handles /\ driver[cur].handle = wh
    BY <2>1 DEF IInv, Frame, Holds
  <2>3. PICK n \in {-1} \cup Numbers(open[wh]) :
          number' = [number EXCEPT ![cur] = IF try = "nvmeWin" THEN disk ELSE n]
    BY <1>1 DEF Merge
  <2>4. number \in [Handles -> Int]
    BY DEF IInv, Frame
  <2>5. CASE try = "nvmeWin"
    <3>1. /\ number'[cur] = disk
          /\ \A h \in Handles \ {cur} : number'[h] = number[h]
      BY <2>2, <2>3, <2>4, <2>5
    <3>2. calm => open[wh] = at[disk]
      BY <2>1, <2>5 DEF CalmInv
    <3> QED BY <2>2, <2>5, <3>1, <3>2 DEF NumberStep
  <2>6. CASE try # "nvmeWin"
    <3>1. /\ number'[cur] = n
          /\ \A h \in Handles \ {cur} : number'[h] = number[h]
      BY <2>2, <2>3, <2>4, <2>6
    <3>2. n # -1 => at[n] = open[wh]
      BY <2>3 DEF Numbers
    <3> QED BY <2>2, <3>1, <3>2 DEF NumberStep
  <2> QED BY <2>5, <2>6
<1>2. CASE List \/ \E h \in Object : Destroy(h)
  <2>1. PICK h \in Handles : number' = [number EXCEPT ![h] = -1]
    BY <1>2 DEF List, Destroy, Bury, Handles
  <2>2. number \in [Handles -> Int]
    BY DEF IInv, Frame
  <2> QED BY <2>1, <2>2 DEF NumberStep
<1>3. CASE UNCHANGED number
  BY <1>3 DEF NumberStep
<1>4. CASE \/ \E h \in Object, n \in Num : Open(h, n)
           \/ GetScsiPath \/ OpenPort \/ Samsung \/ OpenDrive \/ Identify \/ Inquiry
           \/ \E h \in Object : Close(h)
  BY <1>3, <1>4 DEF Open, GetScsiPath, OpenPort, Samsung, OpenDrive, Identify, Inquiry, Close, objVars
<1>5. CASE \/ EnumDrives \/ FindDevice \/ Found \/ OpenDevice \/ EnumReturns
           \/ \E n \in Num : Unplug(n) \/ \E p \in Port, d \in Drive : Plug(n, p, d)
           \/ UNCHANGED vars
  BY <1>3, <1>5 DEF EnumDrives, FindDevice, Found, OpenDevice, EnumReturns, Unplug, Plug, Move, vars, objVars
<1>6. CASE Scans
  BY <1>3, <1>6, ScanStep DEF objVars
<1> QED BY <1>1, <1>2, <1>4, <1>5, <1>6 DEF Next, Scans

\* windows_dev_num is the number of the drive the object is open on, for the
\* drivers that ask their handle always, for the one on the port unless drives
\* were moved during the open.
THEOREM NumberIsRight == Spec => NumberIsTheDrives
<1>1. Init => CalmInv
  BY WinAssumption DEF Init, CalmInv, Places
<1>2. IInv /\ CalmInv /\ [Next]_vars => CalmInv'
  BY CalmStep
<1>3. IInv /\ CalmInv /\ [Next]_vars => [NumberStep]_vars
  BY NumberStepHolds
<1> QED BY <1>1, <1>2, <1>3, Invariance, PTL DEF Spec, NumberIsTheDrives, NumberStep

-----------------------------------------------------------------------------
(* enumDrives *)

\* The list has drive d, as itself, without identification or with an error.
Listed(d) == \E e \in list : e.disk \in Num /\ at[e.disk] = d /\ (e.failed \/ e.about \in {d, Blank})

\* Drive d is being opened for the list, or was.
Underway(d) == at[disk] = d /\ pc \in Opening \cup Merging \cup {"listing"}

(***************************************************************************)
(* While enumDrives runs, a drive that was not moved is among the          *)
(* interfaces still to be read, or its number among the devices still to   *)
(* be opened, or it is under way, or listed.  What its open() learns is    *)
(* true at each driver's attempt, because it was not moved.                *)
(***************************************************************************)
EnumInv ==
  /\ pc # "finding" => todo = {}
  /\ stayed # {} => pc \notin {"idle"} \cup Scanning /\ (pc \in Opening \cup Merging => cur = Scratch)
  /\ \A d \in stayed :
       /\ d # None /\ Present(d)
       /\ d \in todo \/ (\E n \in devices : at[n] = d) \/ Underway(d) \/ Listed(d)
  /\ at[disk] \in stayed =>
       /\ pc \in Port => behind[pc] = at[disk]
       /\ pc = "identify" \/ pc \in Merging => open[wh] = at[disk]
       /\ pc \in Merging => about[cur] \in {at[disk], Blank}
       /\ pc = "listing" => failed[Scratch] \/ about[Scratch] \in {at[disk], Blank}

\* Where the thread goes during an open().
LEMMA EnumGoesOn ==
  ASSUME IInv, EnumInv, pc \in Opening \cup Merging, pc # "finding",
         \/ NextDriver \/ Return
         \/ pc' \in Opening \cup Merging /\ UNCHANGED <<cur, disk>>,
         UNCHANGED <<machine, enumVars, stayed>>
  PROVE  /\ pc' # "finding" /\ todo' = {}
         /\ stayed' # {} => /\ cur' = Scratch /\ disk' = disk
                            /\ pc' \in Opening \cup Merging \cup {"listing"}
         /\ \A d \in stayed' :
              /\ d # None /\ Present(d)'
              /\ d \in todo' \/ (\E n \in devices' : at'[n] = d) \/ Underway(d)' \/ Listed(d)'
<1>1. /\ todo' = {} /\ UNCHANGED <<at, devices, list>>
  BY DEF EnumInv, machine, enumVars
<1>2. pc' # "finding"
  BY WinAssumption DEF NextDriver, Return, Opening, Merging, Places
<1>3. ASSUME stayed' # {}
      PROVE  cur' = Scratch /\ disk' = disk /\ pc' \in Opening \cup Merging \cup {"listing"}
  <2>1. cur = Scratch
    BY <1>3 DEF EnumInv
  <2> QED BY <2>1 DEF NextDriver, Return, Opening
<1>4. ASSUME NEW d \in stayed'
      PROVE  /\ d # None /\ Present(d)'
             /\ d \in todo' \/ (\E n \in devices' : at'[n] = d) \/ Underway(d)' \/ Listed(d)'
  <2>1. d # None /\ Present(d) /\ ((\E n \in devices : at[n] = d) \/ Underway(d) \/ Listed(d))
    BY <1>4 DEF EnumInv
  <2>2. Listed(d) => Listed(d)'
    BY <1>1 DEF Listed
  <2>3. Underway(d) => Underway(d)'
    BY <1>1, <1>3, <1>4 DEF Underway
  <2>4. Present(d)'
    BY <1>1, <2>1 DEF Present
  <2> QED BY <1>1, <2>1, <2>2, <2>3, <2>4
<1> QED BY <1>1, <1>2, <1>3, <1>4

\* A driver's attempt that failed leaves nothing to know.
LEMMA EnumFails ==
  ASSUME IInv, EnumInv, pc \in Opening, NextDriver, UNCHANGED <<machine, enumVars, stayed>>
  PROVE  EnumInv'
<1>1. pc # "finding"
  BY WinAssumption DEF Opening, Places
<1>2. /\ pc' # "finding" /\ todo' = {}
      /\ stayed' # {} => /\ cur' = Scratch /\ disk' = disk
                         /\ pc' \in Opening \cup Merging \cup {"listing"}
      /\ \A d \in stayed' :
           /\ d # None /\ Present(d)'
           /\ d \in todo' \/ (\E n \in devices' : at'[n] = d) \/ Underway(d)' \/ Listed(d)'
  BY <1>1, EnumGoesOn
<1>3. pc' \in {"open", "listing", "idle"} /\ pc' \notin Port \cup Merging \cup {"identify"}
  BY WinAssumption DEF NextDriver, Return, Places, Merging
<1>4. ASSUME pc' = "listing", at'[disk'] \in stayed' PROVE failed'[Scratch]
  <2>1. cur = Scratch /\ Scratch \in Handles
    BY <1>4 DEF EnumInv, Handles
  <2>2. failed' = [failed EXCEPT ![cur] = TRUE]
    BY <1>4 DEF NextDriver, Become
  <2> QED BY <2>1, <2>2 DEF IInv, Frame
<1>5. stayed' # {} => pc' \notin {"idle"} \cup Scanning
  BY <1>2, ScanningApart, WinAssumption DEF Opening, Merging, Places
<1> QED BY <1>2, <1>3, <1>4, <1>5 DEF EnumInv

\* One that got a handle has it on the drive.
LEMMA EnumOpens ==
  ASSUME IInv, EnumInv, GetScsiPath \/ OpenPort \/ OpenDrive, ~NextDriver
  PROVE  EnumInv'
<1>1. /\ pc \in Opening /\ pc # "finding" /\ pc # "identify"
      /\ UNCHANGED <<machine, enumVars, stayed, cur, disk>>
  BY WinAssumption DEF GetScsiPath, OpenPort, OpenDrive, Opening, Places, callVars
<1>2. pc' \in Opening /\ pc' \notin Merging /\ pc' # "listing" /\ pc' \notin {"idle"} \cup Scanning
  <2>1. pc' \in Opening /\ pc' \notin Merging /\ pc' # "listing" /\ pc' # "idle"
    BY WinAssumption DEF GetScsiPath, OpenPort, OpenDrive, Opening, Merging, Places
  <2> QED BY <2>1, ScanningApart
<1>3. /\ pc' # "finding" /\ todo' = {}
      /\ stayed' # {} => /\ cur' = Scratch /\ disk' = disk
                         /\ pc' \in Opening \cup Merging \cup {"listing"}
      /\ \A d \in stayed' :
           /\ d # None /\ Present(d)'
           /\ d \in todo' \/ (\E n \in devices' : at'[n] = d) \/ Underway(d)' \/ Listed(d)'
  BY <1>1, <1>2, EnumGoesOn
<1>4. ASSUME pc' \in Port PROVE behind'[pc'] = at'[disk']
  <2>1. GetScsiPath
    BY <1>4, WinAssumption DEF OpenPort, OpenDrive, Places
  <2> QED BY <1>1, <2>1 DEF GetScsiPath, machine
<1>5. ASSUME pc' = "identify", at'[disk'] \in stayed' PROVE open'[wh'] = at'[disk']
  <2>1. OpenPort \/ OpenDrive
    BY <1>5, WinAssumption DEF GetScsiPath, Places
  <2>2. OpenPort => behind[pc] = at[disk]
    BY <1>1, <1>5 DEF OpenPort, EnumInv, machine
  <2>3. CreateFile(at[disk])
    BY <2>1, <2>2 DEF OpenPort, OpenDrive
  <2>4. wh' \in Hnd /\ open' = [open EXCEPT ![wh'] = at[disk]]
    BY <2>3 DEF CreateFile, Free
  <2> QED BY <1>1, <2>4 DEF IInv, Core, TableOK, machine
<1> QED BY <1>2, <1>3, <1>4, <1>5 DEF EnumInv

\* What it learns there is of the drive.
LEMMA EnumLearns ==
  ASSUME IInv, EnumInv, (Identify /\ Identified) \/ Merge \/ Inquiry
  PROVE  EnumInv'
<1>1. /\ pc \in Opening \cup Merging /\ pc # "finding" /\ cur \in Handles
      /\ UNCHANGED <<machine, enumVars, stayed, open>>
  BY DEF Identify, Identified, Merge, Inquiry, Opening, Merging, IInv, Frame
<1>2. /\ pc' \in Merging \cup {"listing", "idle"}
      /\ pc' \notin Port \cup {"identify"}
      /\ pc' \in Merging => UNCHANGED callVars
      /\ Return \/ (pc' \in Merging /\ UNCHANGED callVars)
  BY WinAssumption DEF Identify, Identified, Merge, Inquiry, Return, Merging, Places
<1>3. /\ pc' # "finding" /\ todo' = {}
      /\ stayed' # {} => /\ cur' = Scratch /\ disk' = disk
                         /\ pc' \in Opening \cup Merging \cup {"listing"}
      /\ \A d \in stayed' :
           /\ d # None /\ Present(d)'
           /\ d \in todo' \/ (\E n \in devices' : at'[n] = d) \/ Underway(d)' \/ Listed(d)'
  BY <1>1, <1>2, EnumGoesOn DEF callVars
<1>4. ASSUME at'[disk'] \in stayed'
      PROVE  /\ cur = Scratch /\ cur' = cur /\ at'[disk'] = at[disk] /\ open[wh] = at[disk]
             /\ about'[cur] \in {at[disk], Blank}
  <2>1. cur = Scratch /\ cur' = cur /\ at'[disk'] = at[disk] /\ at[disk] \in stayed
    BY <1>1, <1>3, <1>4 DEF EnumInv, machine
  <2>2. open[wh] = at[disk] /\ (pc \in Merging => about[cur] \in {at[disk], Blank})
    BY <2>1 DEF EnumInv, Identify, Merge, Inquiry, Merging
  <2>3. (about' = about /\ pc \in Merging) \/ \E id \in {open[wh], Blank} : about' = [about EXCEPT ![cur] = id]
    <3>1. Identify /\ Identified => \E id \in {open[wh], Blank} : about' = [about EXCEPT ![cur] = id]
      <4>1. (Identify /\ Identified) => Identifications(open[wh]) \subseteq {open[wh], Blank}
        <5>1. Identify => try \in {"nvmeWin", "windowsNvme", "scsi", "ata"}
          BY DEF Identify, IInv, Frame, Names
        <5> QED BY <5>1 DEF Identifications
      <4>2. Identified => \E id \in Identifications(open[wh]) : about' = [about EXCEPT ![cur] = id]
        BY DEF Identified
      <4> QED BY <4>1, <4>2
    <3> QED BY <3>1 DEF Merge, Inquiry, Merging
  <2> QED BY <1>1, <2>1, <2>2, <2>3 DEF IInv, Core, TableOK
<1>5. stayed' # {} => pc' \notin {"idle"} \cup Scanning
  BY <1>3, ScanningApart, WinAssumption DEF Opening, Merging, Places
<1>6. at'[disk'] \in stayed' =>
        /\ pc' \in Port => behind'[pc'] = at'[disk']
        /\ pc' = "identify" \/ pc' \in Merging => open'[wh'] = at'[disk']
        /\ pc' \in Merging => about'[cur'] \in {at'[disk'], Blank}
        /\ pc' = "listing" => failed'[Scratch] \/ about'[Scratch] \in {at'[disk'], Blank}
  BY <1>1, <1>2, <1>4 DEF callVars
<1> QED BY <1>3, <1>5, <1>6 DEF EnumInv

LEMMA EnumOpenStep ==
  ASSUME IInv, EnumInv, GetScsiPath \/ OpenPort \/ Samsung \/ OpenDrive \/ Identify \/ Merge \/ Inquiry
  PROVE  EnumInv'
<1>1. ASSUME GetScsiPath \/ OpenPort \/ Samsung \/ OpenDrive \/ Identify
      PROVE  pc \in Opening /\ UNCHANGED <<machine, enumVars, stayed>>
  BY <1>1 DEF GetScsiPath, OpenPort, Samsung, OpenDrive, Identify, Opening
<1>2. Samsung => NextDriver
  BY DEF Samsung
<1>3. Identify => NextDriver \/ Identified
  BY DEF Identify
<1> QED BY <1>1, <1>2, <1>3, EnumFails, EnumOpens, EnumLearns

LEMMA EnumLoopStep ==
  ASSUME IInv, DevicesOK, EnumInv, EnumDrives \/ FindDevice \/ Found \/ OpenDevice \/ List \/ EnumReturns
  PROVE  EnumInv'
<1> DEFINE Nowhere(p) == p \notin Opening \cup Merging /\ p # "listing"
<1>0. \A p \in {"idle", "finding", "enumerating"} : Nowhere(p) /\ p \notin Scanning
  BY ScanningApart, WinAssumption DEF Opening, Merging, Places
<1>1. CASE EnumDrives
  <2>1. /\ pc' = "finding" /\ at' = at
        /\ todo' = {d \in Drive : Present(d)} /\ stayed' = {d \in Drive : Present(d)}
    BY <1>1 DEF EnumDrives, machine
  <2>2. \A d : Present(d) => Present(d)'
    BY <2>1 DEF Present
  <2>3. None \notin Drive
    BY WinAssumption
  <2>4. Nowhere(pc') /\ pc' \notin Port \cup Scanning /\ pc' # "identify"
    BY <1>0, <2>1 DEF Opening
  <2> QED BY <2>1, <2>2, <2>3, <2>4 DEF EnumInv
<1>2. CASE FindDevice
  <2>1. PICK d \in todo : todo' = todo \ {d} /\ devices' = devices \cup Numbers(d)
    BY <1>2 DEF FindDevice
  <2>2. pc = "finding" /\ pc' = pc /\ UNCHANGED <<at, list, stayed>>
    BY <1>2 DEF FindDevice, machine, history
  <2>3. Nowhere(pc') /\ pc' \notin Port \cup Scanning /\ pc' # "identify" /\ Nowhere(pc)
    BY <1>0, <2>2 DEF Opening
  <2>4. ASSUME NEW c \in stayed'
        PROVE  /\ c # None /\ Present(c)'
               /\ c \in todo' \/ (\E n \in devices' : at'[n] = c) \/ Underway(c)' \/ Listed(c)'
    <3>1. /\ c # None /\ Present(c) /\ ~Underway(c)
          /\ c \in todo \/ (\E n \in devices : at[n] = c) \/ Listed(c)
      BY <2>2, <2>3, <2>4 DEF EnumInv, Underway
    <3>2. c = d => \E n \in devices' : at'[n] = c
      BY <2>1, <2>2, <3>1 DEF Present, Numbers
    <3>3. Present(c)' /\ (Listed(c) => Listed(c)')
      BY <2>2, <3>1 DEF Present, Listed
    <3> QED BY <2>1, <2>2, <3>1, <3>2, <3>3
  <2> QED BY <2>2, <2>3, <2>4 DEF EnumInv
<1>3. CASE Found
  <2>1. /\ pc = "finding" /\ pc' = "enumerating" /\ UNCHANGED <<at, list, stayed, todo, devices>> /\ todo = {}
    BY <1>3 DEF Found, machine, history, enumVars
  <2>2. Nowhere(pc') /\ pc' \notin Port \cup Scanning /\ pc' # "identify" /\ Nowhere(pc)
    BY <1>0, <2>1 DEF Opening
  <2>3. ASSUME NEW c \in stayed'
        PROVE  /\ c # None /\ Present(c)'
               /\ c \in todo' \/ (\E n \in devices' : at'[n] = c) \/ Underway(c)' \/ Listed(c)'
    <3>1. c # None /\ Present(c) /\ ((\E n \in devices : at[n] = c) \/ Listed(c))
      BY <2>1, <2>2, <2>3 DEF EnumInv, Underway
    <3>2. Present(c)' /\ (Listed(c) => Listed(c)')
      BY <2>1, <3>1 DEF Present, Listed
    <3> QED BY <2>1, <3>1, <3>2
  <2> QED BY <2>1, <2>2, <2>3 DEF EnumInv
<1>4. CASE OpenDevice
  <2>1. PICK n \in devices : devices' = devices \ {n} /\ Call(Scratch, n)
    BY <1>4 DEF OpenDevice
  <2>2. pc = "enumerating" /\ UNCHANGED <<at, list, stayed, todo>>
    BY <1>4 DEF OpenDevice, machine
  <2>3. /\ pc' = "open" /\ cur' = Scratch /\ disk' = n /\ pc' \in Opening
        /\ pc' \notin Port \cup Merging \cup Scanning
    BY <2>1, ScanningApart, WinAssumption DEF Call, Opening, Merging, Places
  <2>4. Nowhere(pc)
    BY <1>0, <2>2
  <2>5. ASSUME NEW c \in stayed'
        PROVE  /\ c # None /\ Present(c)'
               /\ c \in todo' \/ (\E m \in devices' : at'[m] = c) \/ Underway(c)' \/ Listed(c)'
    <3>1. c # None /\ Present(c) /\ (c \in todo \/ (\E m \in devices : at[m] = c) \/ Listed(c))
      BY <2>2, <2>4, <2>5 DEF EnumInv, Underway
    <3>2. Present(c)' /\ (Listed(c) => Listed(c)')
      BY <2>2, <3>1 DEF Present, Listed
    <3>3. at[n] = c => Underway(c)'
      BY <2>2, <2>3 DEF Underway
    <3> QED BY <2>1, <2>2, <3>1, <3>2, <3>3
  <2>6. todo' = {}
    BY <2>2 DEF EnumInv
  <2> QED BY <2>3, <2>5, <2>6 DEF EnumInv
<1>5. CASE List
  <2>1. /\ pc = "listing" /\ pc' = "enumerating" /\ UNCHANGED <<at, stayed, todo, devices>>
        /\ list' = list \cup {[disk |-> disk, failed |-> failed[Scratch], about |-> about[Scratch]]}
    BY <1>5 DEF List, machine
  <2>2. Nowhere(pc') /\ pc' \notin Port \cup Scanning /\ pc' # "identify"
    BY <1>0, <2>1 DEF Opening
  <2>3. ASSUME NEW c \in stayed'
        PROVE  /\ c # None /\ Present(c)'
               /\ c \in todo' \/ (\E n \in devices' : at'[n] = c) \/ Underway(c)' \/ Listed(c)'
    <3>1. /\ c # None /\ Present(c)
          /\ c \in todo \/ (\E n \in devices : at[n] = c) \/ at[disk] = c \/ Listed(c)
      BY <2>1, <2>3 DEF EnumInv, Underway
    <3>2. Present(c)' /\ (Listed(c) => Listed(c)')
      BY <2>1, <3>1 DEF Present, Listed
    <3>3. ASSUME at[disk] = c PROVE Listed(c)'
      <4> DEFINE new == [disk |-> disk, failed |-> failed[Scratch], about |-> about[Scratch]]
      <4>1. failed[Scratch] \/ about[Scratch] \in {c, Blank}
        BY <2>1, <2>3, <3>3 DEF EnumInv
      <4>2. new \in list' /\ new.disk \in Num /\ at'[new.disk] = c /\ (new.failed \/ new.about \in {c, Blank})
        BY <2>1, <3>3, <4>1 DEF IInv, Frame
      <4> QED BY <4>2 DEF Listed
    <3> QED BY <2>1, <3>1, <3>2, <3>3
  <2>4. todo' = {}
    BY <2>1 DEF EnumInv
  <2> QED BY <2>1, <2>2, <2>3, <2>4 DEF EnumInv
<1>6. CASE EnumReturns
  <2>1. pc = "enumerating" /\ pc' = "idle" /\ stayed' = {} /\ todo' = todo
    BY <1>6 DEF EnumReturns
  <2> QED BY <2>1 DEF EnumInv
<1> QED BY <1>1, <1>2, <1>3, <1>4, <1>5, <1>6

\* A drive that is moved is not among those that stayed.
LEMMA EnumMachineStep ==
  ASSUME IInv, DevicesOK, EnumInv, NEW n \in Num, Unplug(n) \/ \E p \in Port, d \in Drive : Plug(n, p, d)
  PROVE  EnumInv'
<1>1. /\ UNCHANGED <<open, objVars, pc, cur, try, disk, wh, todo, devices, list>>
      /\ stayed' \subseteq stayed
  BY DEF Unplug, Plug, Move, callVars, enumVars
<1>2. at \in [Num -> Drive \cup {None}] /\ behind \in [Port -> Drive \cup {None}] /\ disk \in Num
  BY DEF IInv, Frame
<1>3. ASSUME NEW c \in stayed', NEW m \in Num PROVE at[m] = c <=> at'[m] = c
  <2>1. CASE Unplug(n)
    BY <1>2, <1>3, <2>1 DEF Unplug, EnumInv
  <2>2. ASSUME NEW p \in Port, NEW d \in Drive, Plug(n, p, d)
        PROVE  at[m] = c <=> at'[m] = c
    <3>1. /\ at[n] = None /\ ~Present(d) /\ stayed' = stayed /\ at' = [at EXCEPT ![n] = d]
      BY <2>2 DEF Plug
    <3>2. d \notin stayed /\ None \notin stayed
      BY <3>1 DEF EnumInv
    <3> QED BY <1>2, <1>3, <3>1, <3>2
  <2> QED BY <2>1, <2>2
<1>4. ASSUME NEW c \in stayed', NEW q \in Port, behind[q] = c PROVE behind'[q] = c
  <2>1. CASE Unplug(n)
    BY <1>2, <1>4, <2>1 DEF Unplug, EnumInv
  <2>2. ASSUME NEW p \in Port, NEW d \in Drive, Plug(n, p, d)
        PROVE  behind'[q] = c
    <3>1. behind[p] = None /\ behind' = [behind EXCEPT ![p] = d] /\ c # None
      BY <1>1, <1>4, <2>2 DEF Plug, EnumInv
    <3> QED BY <1>2, <1>4, <3>1
  <2> QED BY <2>1, <2>2
<1>5. ASSUME NEW c \in stayed'
      PROVE  /\ c # None /\ Present(c)'
             /\ c \in todo' \/ (\E m \in devices' : at'[m] = c) \/ Underway(c)' \/ Listed(c)'
  <2>1. /\ c # None /\ Present(c)
        /\ c \in todo \/ (\E m \in devices : at[m] = c) \/ Underway(c) \/ Listed(c)
    BY <1>1, <1>5 DEF EnumInv
  <2>2. Present(c)'
    BY <1>3, <2>1 DEF Present
  <2>3. Underway(c) => Underway(c)'
    BY <1>1, <1>2, <1>3 DEF Underway
  <2>4. Listed(c) => Listed(c)'
    BY <1>1, <1>3 DEF Listed
  <2>5. (\E m \in devices : at[m] = c) => \E m \in devices' : at'[m] = c
    BY <1>1, <1>3 DEF DevicesOK
  <2> QED BY <1>1, <2>1, <2>2, <2>3, <2>4, <2>5
<1>6. ASSUME at'[disk] \in stayed' PROVE at'[disk] = at[disk] /\ at[disk] \in stayed
  BY <1>1, <1>2, <1>3, <1>6
<1>7. /\ pc # "finding" => todo' = {}
      /\ stayed' # {} => pc \notin {"idle"} \cup Scanning /\ (pc \in Opening \cup Merging => cur = Scratch)
  BY <1>1 DEF EnumInv
<1>8. at'[disk] \in stayed' =>
        /\ pc \in Port => behind'[pc] = at'[disk]
        /\ pc = "identify" \/ pc \in Merging => open[wh] = at'[disk]
        /\ pc \in Merging => about[cur] \in {at'[disk], Blank}
        /\ pc = "listing" => failed[Scratch] \/ about[Scratch] \in {at'[disk], Blank}
  BY <1>4, <1>6 DEF EnumInv
<1> QED BY <1>1, <1>5, <1>7, <1>8 DEF EnumInv, objVars

LEMMA EnumInvStep ==
  ASSUME IInv, DevicesOK, EnumInv, [Next]_vars
  PROVE  EnumInv'
<1>1. ASSUME NEW h \in Object, (\E n \in Num : Open(h, n)) \/ Close(h) \/ Destroy(h)
      PROVE  EnumInv'
  <2>1. /\ pc = "idle" /\ UNCHANGED <<stayed, todo>> /\ pc' # "finding"
    BY <1>1 DEF Open, Call, Close, Destroy, enumVars, history
  <2> QED BY <2>1 DEF EnumInv
<1>2. CASE Scans
  <2>1. /\ pc \in {"idle"} \cup Scanning /\ pc' # "finding" /\ pc # "finding"
        /\ UNCHANGED <<stayed, todo>>
    BY <1>2, ScanStep, ScanningApart DEF enumVars, history
  <2> QED BY <2>1 DEF EnumInv
<1>3. CASE UNCHANGED vars
  <2>1. UNCHANGED <<at, behind, open, about, failed, pc, cur, disk, wh, todo, devices, list, stayed>>
    BY <1>3 DEF vars, machine, objVars, callVars, enumVars, history
  <2> QED BY <2>1 DEF EnumInv, Listed, Underway, Present
<1> QED BY <1>1, <1>2, <1>3, EnumOpenStep, EnumLoopStep, EnumMachineStep DEF Next, Scans

\* enumDrives lists every drive that was not moved while it ran, as itself,
\* without identification or with an error, whatever was plugged and unplugged
\* meanwhile and however many of the five drivers failed on the way
\* (plat-win/drive_factory.cc, physical_drive_finder.cc).
THEOREM AllEnumerated == Spec => []Enumerates
<1>1. Init => EnumInv
  <2>1. "idle" \notin Opening \cup Merging \cup Port
    BY WinAssumption DEF Opening, Merging, Places
  <2> QED BY <2>1 DEF Init, EnumInv
<1>2. IInv /\ DevicesOK /\ EnumInv /\ [Next]_vars => EnumInv'
  BY EnumInvStep
<1>3. EnumInv => Enumerates
  <2>1. "enumerating" \notin Opening \cup Merging
    BY WinAssumption DEF Opening, Merging, Places
  <2> QED BY <2>1 DEF EnumInv, Enumerates, Listed, Underway
<1>4. Init => DevicesOK
  BY DEF Init, DevicesOK
<1>5. DevicesOK /\ [Next]_vars => DevicesOK'
  BY DevicesStep
<1> QED BY <1>1, <1>2, <1>3, <1>4, <1>5, Invariance, PTL DEF Spec

-----------------------------------------------------------------------------
(* Volumes *)

(***************************************************************************)
(* A drive has one number.  The extents that were told of a volume begin   *)
(* with the number that its first drive had when they were read; of one    *)
(* that did not tell, no numbers are remembered.                           *)
(***************************************************************************)
VolumeInv ==
  /\ at \in [Num -> Drive \cup {None}] /\ Placed(at)
  /\ number \in [Handles -> Num \cup {-1}]
  /\ then \in [Volume -> [Num -> Drive \cup {None}]]
  /\ DOMAIN volumes \subseteq Volume
  /\ \A v \in DOMAIN volumes :
       \/ volumes[v] = <<>> /\ then[v] = Unread
       \/ /\ volumes[v] # <<>> /\ volumes[v] \in Seq(Num)
          /\ Placed(then[v]) /\ then[v][Head(volumes[v])] = Head(Lies[v])

\* The machine never gives a drive two numbers.
LEMMA PlacedStep ==
  ASSUME VolumeInv, NEW n \in Num, Unplug(n) \/ \E p \in Port, d \in Drive : Plug(n, p, d)
  PROVE  at' \in [Num -> Drive \cup {None}] /\ Placed(at')
<1>1. at \in [Num -> Drive \cup {None}] /\ Placed(at)
  BY DEF VolumeInv
<1>2. CASE Unplug(n)
  BY <1>1, <1>2 DEF Unplug, Placed
<1>3. ASSUME NEW p \in Port, NEW d \in Drive, Plug(n, p, d)
      PROVE  at' \in [Num -> Drive \cup {None}] /\ Placed(at')
  <2>1. at' = [at EXCEPT ![n] = d] /\ \A m \in Num : at[m] # d
    BY <1>3 DEF Plug, Present
  <2> QED BY <1>1, <2>1 DEF Placed
<1> QED BY <1>2, <1>3

\* The extents of a volume whose drives are all there.
LEMMA ExtentsRead ==
  ASSUME NEW v \in Volume, Online(v), at \in [Num -> Drive \cup {None}],
         NEW extents, extents = [i \in DOMAIN Lies[v] |-> Number(Lies[v][i])]
  PROVE  extents # <<>> /\ extents \in Seq(Num) /\ at[Head(extents)] = Head(Lies[v])
<1>1. Lies[v] \in Seq(Drive) /\ Lies[v] # <<>>
  BY WinAssumption
<1>2. Len(Lies[v]) \in Nat \ {0} /\ DOMAIN Lies[v] = 1..Len(Lies[v])
  BY <1>1
<1>3. \A i \in DOMAIN Lies[v] : Number(Lies[v][i]) \in Num /\ at[Number(Lies[v][i])] = Lies[v][i]
  BY DEF Number, Present, Online
<1>4. extents \in Seq(Num) /\ Len(extents) = Len(Lies[v]) /\ extents[1] = Number(Lies[v][1])
  BY <1>2, <1>3
<1>5. Head(extents) = extents[1] /\ Head(Lies[v]) = Lies[v][1]
  BY <1>1, <1>2, <1>4
<1> QED BY <1>2, <1>3, <1>4, <1>5

\* What enumVolumes reads.
LEMMA VolumesRead ==
  ASSUME VolumeInv, ReadExtents
  PROVE  VolumeInv'
<1>1. UNCHANGED <<at, number>> /\ pc \in Volume
  BY DEF ReadExtents, machine, objVars
<1> DEFINE all == [i \in DOMAIN Lies[pc] |-> Number(Lies[pc][i])]
<1>2. PICK told \in {FALSE} \cup {Online(pc)} :
        LET extents == IF told THEN all ELSE <<>>
        IN  /\ volumes' = [v \in DOMAIN volumes \cup {pc} |-> IF v = pc THEN extents ELSE volumes[v]]
            /\ then' = [then EXCEPT ![pc] = IF told THEN at ELSE Unread]
  BY DEF ReadExtents
<1> DEFINE extents == IF told THEN all ELSE <<>>
<1> HIDE DEF all
<1>3. /\ DOMAIN volumes' = DOMAIN volumes \cup {pc} /\ volumes'[pc] = extents
      /\ \A v \in DOMAIN volumes \ {pc} : volumes'[v] = volumes[v]
  BY <1>2
<1>4. /\ at \in [Num -> Drive \cup {None}] /\ Placed(at) /\ Unread \in [Num -> Drive \cup {None}]
      /\ then \in [Volume -> [Num -> Drive \cup {None}]]
  BY DEF VolumeInv, Unread
<1>5. /\ then' \in [Volume -> [Num -> Drive \cup {None}]]
      /\ \A v \in Volume \ {pc} : then'[v] = then[v]
      /\ told => then'[pc] = at
      /\ ~told => then'[pc] = Unread
  BY <1>1, <1>2, <1>4
<1>6. CASE told
  <2>1. Online(pc)
    BY <1>2, <1>6
  <2>2. all # <<>> /\ all \in Seq(Num) /\ at[Head(all)] = Head(Lies[pc])
    BY <1>1, <1>4, <2>1, ExtentsRead DEF all
  <2> QED BY <1>1, <1>3, <1>4, <1>5, <1>6, <2>2 DEF VolumeInv
<1>7. CASE ~told
  BY <1>1, <1>3, <1>4, <1>5, <1>7 DEF VolumeInv
<1> QED BY <1>6, <1>7

LEMMA VolumeStep ==
  ASSUME IInv, VolumeInv, [Next]_vars
  PROVE  VolumeInv'
<1>1. ASSUME UNCHANGED volVars, at' \in [Num -> Drive \cup {None}], Placed(at'),
             number' \in [Handles -> Num \cup {-1}]
      PROVE  VolumeInv'
  BY <1>1 DEF VolumeInv, volVars
<1>2. at \in [Num -> Drive \cup {None}] /\ Placed(at) /\ number \in [Handles -> Num \cup {-1}]
  BY DEF VolumeInv
<1>3. CASE Merge
  <2>1. number' \in [Handles -> Num \cup {-1}]
    <3>1. disk \in Num
      BY DEF IInv, Frame
    <3>2. PICK k \in Num \cup {-1} : number' = [number EXCEPT ![cur] = k]
      BY <1>3, <3>1 DEF Merge, Numbers
    <3> QED BY <1>2, <3>2
  <2> QED BY <1>1, <1>2, <1>3, <2>1 DEF Merge, machine
<1>4. CASE List \/ \E h \in Object : Destroy(h)
  <2>1. number' \in [Handles -> Num \cup {-1}]
    BY <1>2, <1>4 DEF List, Destroy, Bury
  <2> QED BY <1>1, <1>2, <1>4, <2>1 DEF List, Destroy, machine
<1>5. CASE \/ \E h \in Object, n \in Num : Open(h, n)
           \/ GetScsiPath \/ OpenPort \/ Samsung \/ OpenDrive \/ Identify \/ Inquiry
           \/ \E h \in Object : Close(h)
  BY <1>1, <1>2, <1>5 DEF Open, GetScsiPath, OpenPort, Samsung, OpenDrive, Identify, Inquiry, Close,
    machine, objVars
<1>6. CASE EnumDrives \/ FindDevice \/ Found \/ OpenDevice \/ EnumReturns \/ UNCHANGED vars
  BY <1>1, <1>2, <1>6 DEF EnumDrives, FindDevice, Found, OpenDevice, EnumReturns, vars, machine, objVars
<1>7. CASE \E n \in Num : Unplug(n) \/ \E p \in Port, d \in Drive : Plug(n, p, d)
  <2>1. UNCHANGED <<volVars, number>>
    BY <1>7 DEF Unplug, Plug, Move, objVars
  <2> QED BY <1>1, <1>2, <1>7, <2>1, PlacedStep
<1>8. CASE EnumVolumes
  BY <1>2, <1>8 DEF EnumVolumes, VolumeInv, NoVolumes, Unread, machine, objVars
<1>9. CASE VolumesEnd \/ \E v \in Volume : OpenVolume(v)
  BY <1>1, <1>2, <1>9 DEF VolumesEnd, OpenVolume, machine, objVars
<1> QED BY <1>3, <1>4, <1>5, <1>6, <1>7, <1>8, <1>9, VolumesRead DEF Next

\* A volume is found for an object exactly if it begins on the drive that had
\* the object's number when that very volume was read: enumVolumes reads them
\* one by one, and drives move in between (plat-win/volume_finder.cc).
THEOREM VolumesFound == Spec => []VolumesAreTheDrives
<1>1. Init => VolumeInv
  BY DEF Init, VolumeInv, Placed, NoVolumes, Unread
<1>2. IInv /\ VolumeInv /\ [Next]_vars => VolumeInv'
  BY VolumeStep
<1>3. IInv /\ VolumeInv => VolumesAreTheDrives
  <2> SUFFICES ASSUME IInv, VolumeInv, NEW h \in alive, NEW v \in DOMAIN volumes
               PROVE  LET d == IF number[h] = -1 THEN None ELSE then[v][number[h]]
                      IN  v \in findVolumesByDrive(number[h]) <=> d = Head(Lies[v])
    BY DEF VolumesAreTheDrives
  <2>1. number[h] \in Num \cup {-1} /\ -1 \notin Num /\ v \in Volume
    BY WinAssumption DEF IInv, Frame, VolumeInv
  <2>2. Head(Lies[v]) # None
    <3>1. Lies[v] \in Seq(Drive) /\ Lies[v] # <<>> /\ None \notin Drive
      BY <2>1, WinAssumption
    <3> QED BY <3>1
  <2>3. CASE volumes[v] = <<>> /\ then[v] = Unread
    <3>1. v \notin findVolumesByDrive(number[h])
      BY <2>3 DEF findVolumesByDrive
    <3> QED BY <2>1, <2>2, <2>3, <3>1 DEF Unread
  <2>4. CASE /\ volumes[v] # <<>> /\ volumes[v] \in Seq(Num)
             /\ Placed(then[v]) /\ then[v][Head(volumes[v])] = Head(Lies[v])
    <3>1. v \in findVolumesByDrive(number[h]) <=> Head(volumes[v]) = number[h]
      BY <2>4 DEF findVolumesByDrive
    <3>2. Head(volumes[v]) \in Num
      BY <2>4
    <3>3. \A x, y \in Num : then[v][x] = then[v][y] /\ then[v][x] # None => x = y
      BY <2>1, <2>4 DEF VolumeInv, Placed
    <3> QED BY <2>1, <2>2, <2>4, <3>1, <3>2, <3>3
  <2> QED BY <2>3, <2>4 DEF VolumeInv
<1> QED BY <1>1, <1>2, <1>3, Invariance, PTL DEF Spec
=============================================================================
