-------------------------- MODULE LinuxDriveProofs --------------------------
(***************************************************************************)
(* Proofs about LinuxDrive, for any names, drives, objects and size of the *)
(* descriptor table.                                                       *)
(***************************************************************************)
EXTENDS LinuxDrive, NaturalsInduction, WellFoundedInduction, TLAPS

Opening == {"nvmeOpen", "nvmeId", "nvmeIdentify", "sgOpen", "sgIdentify"}

\* A descriptor that is closed or handed to an object must not be one that was
\* lost already; an object that is about to get a driver handle has none.
HolderInv ==
  /\ Local \cap leaked = {}
  /\ \A h \in Object : driver[h] # None => h \in alive
  /\ pc \in Opening => cur \notin alive
  /\ Scratch \in alive => pc = "listing"

IInv == TypeOK /\ OwnDescriptor /\ Accounted /\ ErrorAgrees /\ HolderInv

-----------------------------------------------------------------------------
(* Descriptors *)

\* The kernel finds the lowest of the free descriptors.
LEMMA LowestIsFree ==
  ASSUME NEW S, S \subseteq Nat, S # {}
  PROVE  Lowest(S) \in S
<1>1. PICK x \in S : \A y \in S : <<y, x>> \notin OpToRel(<, Nat)
  BY NatLessThanWellFounded, WFMin
<1>2. ASSUME NEW y \in S PROVE x <= y
  <2>1. ~(y < x)
    BY <1>1 DEF OpToRel
  <2> QED BY <2>1
<1> QED BY <1>2 DEF Lowest

Holds(h, f) == driver[h] # None /\ driver[h].fd = f

\* Accounted, descriptor by descriptor.
EachAccounted ==
  /\ \A f \in Fd : open[f] # None <=> f \in Local \cup leaked \/ \E h \in Object : Holds(h, f)
  /\ Local \cup leaked \subseteq Fd
  /\ \A h \in Object : driver[h] # None => driver[h].fd \in Fd

LEMMA ByDescriptor ==
  ASSUME driver \in [Object -> Driver \cup {None}]
  PROVE  Accounted <=> EachAccounted
  BY DEF Accounted, EachAccounted, Owned, Holds

\* What the two invariants about descriptors need of the types.
InfoOK == about \in [Object -> Drive \cup {None}] /\ blank \in [Object -> BOOLEAN]

TableOK ==
  /\ open \in [Fd -> Drive \cup {None}]
  /\ driver \in [Object -> Driver \cup {None}]
  /\ InfoOK

Core == TableOK /\ OwnDescriptor /\ EachAccounted /\ Local \cap leaked = {}

\* Open objects keep their driver and what they know of the drive.
SameHolders ==
  /\ driver' = driver
  /\ \A h \in Object : driver[h] # None => about'[h] = about[h] /\ blank'[h] = blank[h]

-----------------------------------------------------------------------------
(* What a step can do with descriptors *)

\* Nothing.
LEMMA KeepStep ==
  ASSUME Core, SameHolders, open' = open, leaked' = leaked, Local' = Local,
         InfoOK'
  PROVE  Core'
  BY DEF Core, TableOK, InfoOK, OwnDescriptor, EachAccounted, SameHolders, Holds

\* Open one for itself.
LEMMA AcquireStep ==
  ASSUME Core, CanOpen, OpenFd, at[path] \in Drive \cup {None}, UNCHANGED <<driver, about, blank, leaked>>,
         Local = {}, Local' = {fd'}
  PROVE  Core'
<1>1. fd' \in Fd /\ open[fd'] = None
  <2>1. Free # {} /\ Free \subseteq Nat
    BY DEF CanOpen, Free, Fd
  <2> QED BY <2>1, LowestIsFree DEF OpenFd, Free
<1>2. open' = [open EXCEPT ![fd'] = at[path]] /\ at[path] \in Drive
  BY DEF OpenFd, CanOpen
<1>3. fd' \notin leaked /\ \A h \in Object : ~Holds(h, fd')
  BY <1>1 DEF Core, EachAccounted
<1>4. None \notin Drive
  BY LinuxAssumption
<1>5. TableOK'
  BY <1>1, <1>2 DEF Core, TableOK, InfoOK
<1>6. OwnDescriptor'
  BY <1>1, <1>2, <1>3 DEF Core, TableOK, InfoOK, OwnDescriptor, EachAccounted, Holds
<1>7. EachAccounted'
  BY <1>1, <1>2, <1>3, <1>4 DEF Core, TableOK, InfoOK, EachAccounted, Holds
<1> QED BY <1>3, <1>5, <1>6, <1>7 DEF Core

\* Close the one it has.
LEMMA DropStep ==
  ASSUME Core, SameHolders, CloseFd(fd), leaked' = leaked, Local = {fd}, Local' = {},
         InfoOK'
  PROVE  Core'
<1>1. fd \in Fd /\ open' = [open EXCEPT ![fd] = None] /\ fd \notin leaked
  BY DEF Core, EachAccounted, CloseFd
<1>2. \A h \in Object : ~Holds(h, fd)
  BY DEF Core, OwnDescriptor, Holds
<1>3. TableOK'
  BY <1>1 DEF Core, TableOK, InfoOK, SameHolders
<1>4. OwnDescriptor'
  BY <1>1, <1>2 DEF Core, TableOK, InfoOK, OwnDescriptor, EachAccounted, Holds, SameHolders
<1>5. EachAccounted'
  BY <1>1, <1>2 DEF Core, TableOK, InfoOK, EachAccounted, Holds, SameHolders
<1> QED BY <1>3, <1>4, <1>5 DEF Core

\* Lose the one it has.
LEMMA LoseStep ==
  ASSUME Core, UNCHANGED <<open, driver, about, blank>>, leaked' = leaked \cup {fd},
         Local = {fd}, Local' = {}
  PROVE  Core'
  BY DEF Core, TableOK, InfoOK, OwnDescriptor, EachAccounted, Holds

\* Hand the one it has to an object.
LEMMA HandOverStep ==
  ASSUME Core, NEW name \in {"nvme", "sg"}, NEW zeros \in BOOLEAN, Made(name, zeros),
         open[fd] \in Drive,
         open[fd] \in (IF name = "nvme" THEN Nvme ELSE Ata) \/ (name = "sg" /\ zeros),
         UNCHANGED <<open, leaked>>, Local = {fd}, Local' = {}, cur \in Object, driver[cur] = None
  PROVE  Core'
<1> DEFINE new == [name |-> name, fd |-> fd]
<1>1. fd \in Fd /\ fd \notin leaked /\ \A h \in Object : ~Holds(h, fd)
  BY DEF Core, EachAccounted, OwnDescriptor, Holds
<1>2. new \in Driver /\ new # None /\ new.fd = fd /\ new.name = name
  <2>1. new \in Driver
    BY <1>1 DEF Driver
  <2> QED BY <2>1, LinuxAssumption
<1> HIDE DEF new
<1>3. /\ driver' = [driver EXCEPT ![cur] = new]
      /\ about' = [about EXCEPT ![cur] = open[fd]] /\ blank' = [blank EXCEPT ![cur] = zeros]
  BY DEF Made, new
<1>4. TableOK'
  BY <1>1, <1>2, <1>3 DEF Core, TableOK, InfoOK
<1>5. /\ driver'[cur] = new /\ about'[cur] = open[fd] /\ blank'[cur] = zeros
      /\ \A h \in Object \ {cur} :
           driver'[h] = driver[h] /\ about'[h] = about[h] /\ blank'[h] = blank[h]
  BY <1>3 DEF Core, TableOK, InfoOK
<1>6. OwnDescriptor'
  BY <1>1, <1>2, <1>5, LinuxAssumption DEF Core, OwnDescriptor, Holds
<1>7. EachAccounted'
  <2>1. \A h \in Object, f \in Fd : Holds(h, f)' <=> Holds(h, f) \/ (h = cur /\ f = fd)
    BY <1>2, <1>5 DEF Holds
  <2> QED BY <1>1, <1>2, <1>5, <2>1 DEF Core, EachAccounted
<1> QED BY <1>4, <1>6, <1>7 DEF Core

\* Close an object's.
LEMMA CloseStep ==
  ASSUME Core, NEW h \in Object, driver[h] # None, CloseFd(driver[h].fd),
         driver' = [driver EXCEPT ![h] = None], UNCHANGED <<about, blank, leaked>>, Local' = Local
  PROVE  Core'
<1> DEFINE f == driver[h].fd
<1>1. /\ f \in Fd /\ f \notin leaked \cup Local
      /\ open' = [open EXCEPT ![f] = None]
  BY DEF Core, EachAccounted, OwnDescriptor, CloseFd
<1>2. /\ driver'[h] = None
      /\ \A g \in Object \ {h} : driver'[g] = driver[g] /\ ~Holds(g, f)
  BY DEF Core, TableOK, InfoOK, OwnDescriptor, Holds
<1> HIDE DEF f
<1>3. TableOK'
  BY <1>1 DEF Core, TableOK, InfoOK
<1>4. OwnDescriptor'
  BY <1>1, <1>2 DEF Core, TableOK, InfoOK, OwnDescriptor, EachAccounted, Holds
<1>5. EachAccounted'
  <2>1. \A g \in Object, e \in Fd : Holds(g, e)' <=> Holds(g, e) /\ e # f
    BY <1>2 DEF Holds, f
  <2> QED BY <1>1, <1>2, <2>1 DEF Core, TableOK, InfoOK, EachAccounted
<1> QED BY <1>1, <1>3, <1>4, <1>5 DEF Core

\* Lose an object's with the object.
LEMMA BuryStep ==
  ASSUME Core, NEW h \in Object, Bury(h), open' = open, Local' = {}, Local = {}
  PROVE  Core'
<1>1. /\ driver' = [driver EXCEPT ![h] = None]
      /\ about' = [about EXCEPT ![h] = None] /\ blank' = [blank EXCEPT ![h] = FALSE]
      /\ leaked' = IF driver[h] = None THEN leaked ELSE leaked \cup {driver[h].fd}
  BY DEF Bury
<1>2. /\ driver'[h] = None
      /\ \A g \in Object \ {h} :
           driver'[g] = driver[g] /\ about'[g] = about[g] /\ blank'[g] = blank[g]
  BY <1>1 DEF Core, TableOK, InfoOK
<1>3. TableOK'
  BY <1>1 DEF Core, TableOK, InfoOK
<1>4. OwnDescriptor'
  BY <1>1, <1>2 DEF Core, OwnDescriptor
<1>5. EachAccounted'
  <2>1. \A e : e \in leaked' <=> e \in leaked \/ Holds(h, e)
    BY <1>1 DEF Holds
  <2>2. \A g \in Object, e \in Fd : Holds(g, e)' <=> Holds(g, e) /\ g # h
    BY <1>2 DEF Holds
  <2> QED BY <1>2, <2>1, <2>2 DEF Core, EachAccounted, Holds
<1> QED BY <1>3, <1>4, <1>5 DEF Core

-----------------------------------------------------------------------------
(* The rest of the invariant *)

LEMMA CoreOfInv == IInv <=> TypeOK /\ Core /\ ErrorAgrees /\ HolderInv
  BY ByDescriptor DEF IInv, Core, TableOK, InfoOK, HolderInv, TypeOK

\* The invariant without the descriptors.
Frame ==
  /\ at \in [Path -> Drive \cup {None}]
  /\ alive \subseteq Object
  /\ failed \in [Object -> BOOLEAN]
  /\ cur \in Object /\ path \in Path /\ fd \in Fd \cup {0}
  /\ todo \subseteq Path /\ stayed \subseteq Path
  /\ ErrorAgrees
  /\ \A h \in Object : driver[h] # None => h \in alive
  /\ pc \in Opening => cur \notin alive
  /\ Scratch \in alive => pc = "listing"

LEMMA Split == IInv <=> Core /\ Frame
<1>1. Core => leaked \subseteq Fd
  BY DEF Core, EachAccounted
<1> QED BY <1>1, CoreOfInv DEF Core, TableOK, InfoOK, Frame, HolderInv, TypeOK

LEMMA Join == Core' /\ Frame' => IInv'
  BY Split, PTL

\* The open() under way ends without a driver handle.
LEMMA RefuseFrame ==
  ASSUME Core, Frame, pc \in Opening, Refuse, UNCHANGED <<at, cur, path, todo, stayed>>, fd' = fd
  PROVE  Frame' /\ SameHolders /\ InfoOK' /\ Local' = {}
<1>1. driver[cur] = None /\ cur \in Object
  BY DEF Frame
<1>2. driver' = driver
  BY <1>1 DEF Refuse, Core, TableOK, InfoOK
<1>3. /\ alive' = alive \cup {cur}
      /\ failed' = [failed EXCEPT ![cur] = TRUE]
      /\ about' = [about EXCEPT ![cur] = None] /\ blank' = [blank EXCEPT ![cur] = FALSE]
  BY DEF Refuse
<1>4. /\ InfoOK'
      /\ \A h \in Object \ {cur} :
           about'[h] = about[h] /\ failed'[h] = failed[h] /\ blank'[h] = blank[h]
      /\ about'[cur] = None
  BY <1>3 DEF Core, TableOK, InfoOK, Frame
<1>5. pc' = IF cur = Scratch THEN "listing" ELSE "idle"
  BY DEF Refuse
<1>6. ErrorAgrees'
  BY <1>1, <1>2, <1>3, <1>4 DEF ErrorAgrees, Frame
<1>7. Scratch \in alive' => pc' = "listing"
  BY <1>3, <1>5 DEF Frame, Opening
<1>8. pc' \notin Opening /\ Local' = {}
  BY <1>5 DEF Opening, Local
<1>9. failed' \in [Object -> BOOLEAN]
  BY <1>3 DEF Frame
<1>10. SameHolders
  BY <1>1, <1>2, <1>4 DEF SameHolders
<1>11. Frame'
  BY <1>1, <1>2, <1>3, <1>6, <1>7, <1>8, <1>9 DEF Frame
<1> QED BY <1>4, <1>8, <1>10, <1>11

\* It ends with one.
LEMMA MadeFrame ==
  ASSUME Core, Frame, pc \in Opening, NEW name, NEW zeros, Made(name, zeros),
         UNCHANGED <<at, cur, path, fd, todo, stayed>>
  PROVE  Frame' /\ Local' = {}
<1>1. /\ alive' = alive \cup {cur} /\ cur \in Object
      /\ failed' = [failed EXCEPT ![cur] = FALSE]
      /\ \A h \in Object \ {cur} : driver'[h] = driver[h] /\ about'[h] = about[h]
  BY DEF Made, Core, TableOK, InfoOK, Frame
<1>2. /\ failed' \in [Object -> BOOLEAN] /\ ~failed'[cur]
      /\ \A h \in Object \ {cur} : failed'[h] = failed[h]
  BY <1>1 DEF Frame
<1>3. pc' = IF cur = Scratch THEN "listing" ELSE "idle"
  BY DEF Made
<1>4. pc' \notin Opening /\ Local' = {}
  BY <1>3 DEF Opening, Local
<1>5. Scratch \in alive' => pc' = "listing"
  BY <1>1, <1>3 DEF Frame, Opening
<1>6. ErrorAgrees'
  BY <1>1, <1>2 DEF ErrorAgrees, Frame
<1>7. \A h \in Object : driver'[h] # None => h \in alive'
  BY <1>1 DEF Frame
<1>8. alive' \subseteq Object
  BY <1>1 DEF Frame
<1>9. /\ at' \in [Path -> Drive \cup {None}]
      /\ cur' \in Object /\ path' \in Path /\ fd' \in Fd \cup {0}
      /\ todo' \subseteq Path /\ stayed' \subseteq Path
  BY DEF Frame
<1> QED BY <1>2, <1>4, <1>5, <1>6, <1>7, <1>8, <1>9 DEF Frame

\* It goes on.
LEMMA GoOnFrame ==
  ASSUME Frame, UNCHANGED <<objVars, cur, path, todo, stayed>>, at' \in [Path -> Drive \cup {None}],
         fd' \in Fd \cup {0}, pc \in Opening, pc' \in Opening
  PROVE  Frame'
  BY DEF Frame, objVars, ErrorAgrees, Opening

\* An object goes out of scope.
LEMMA BuryFrame ==
  ASSUME Core, Frame, NEW h \in Object, Bury(h), UNCHANGED <<at, cur, path, fd, stayed>>,
         todo' = todo, pc' \notin Opening, Scratch \in alive' => pc' = "listing"
  PROVE  Frame'
<1>1. /\ alive' = alive \ {h}
      /\ failed' = [failed EXCEPT ![h] = FALSE]
      /\ \A g \in Object \ {h} : driver'[g] = driver[g] /\ about'[g] = about[g]
      /\ driver'[h] = None
  BY DEF Bury, Core, TableOK, InfoOK
<1>2. /\ failed' \in [Object -> BOOLEAN] /\ ~failed'[h]
      /\ \A g \in Object \ {h} : failed'[g] = failed[g]
  BY <1>1 DEF Frame
<1>3. ErrorAgrees'
  BY <1>1, <1>2 DEF ErrorAgrees, Frame
<1>4. \A g \in Object : driver'[g] # None => g \in alive'
  BY <1>1 DEF Frame
<1>5. /\ at' \in [Path -> Drive \cup {None}]
      /\ cur' \in Object /\ path' \in Path /\ fd' \in Fd \cup {0}
      /\ todo' \subseteq Path /\ stayed' \subseteq Path
  BY DEF Frame
<1>6. alive' \subseteq Object
  BY <1>1 DEF Frame
<1> QED BY <1>2, <1>3, <1>4, <1>5, <1>6 DEF Frame

-----------------------------------------------------------------------------
(* The steps *)

LEMMA InitInv ==
  ASSUME Init
  PROVE  IInv
<1>1. Local = {} /\ \A h \in Object : driver[h] = None
  BY DEF Init, Local
<1>2. Core
  BY <1>1 DEF Init, Core, TableOK, InfoOK, OwnDescriptor, EachAccounted, Holds
<1>3. Frame
  BY <1>1 DEF Init, Frame, ErrorAgrees, Opening, Object
<1> QED BY <1>2, <1>3, Split

\* A step that leaves descriptors, objects and descriptors' losses alone.
LEMMA QuietStep ==
  ASSUME Core, UNCHANGED <<open, objVars, leaked>>, Local' = Local
  PROVE  Core'
  BY KeepStep DEF objVars, SameHolders, Core, TableOK, InfoOK

LEMMA OpenStep ==
  ASSUME IInv, pc \in Opening, NvmeOpen \/ NvmeId \/ NvmeIdentify \/ SgOpen \/ SgIdentify
  PROVE  IInv'
<1> Core /\ Frame
  BY Split
<1> driver[cur] = None /\ cur \in Object /\ at[path] \in Drive \cup {None}
  BY DEF Frame
<1>2. ASSUME CanOpen, OpenFd PROVE fd' \in Fd
  <2>1. Free # {} /\ Free \subseteq Nat
    BY <1>2 DEF CanOpen, Free, Fd
  <2> QED BY <1>2, <2>1, LowestIsFree DEF OpenFd, Free
<1>3. CASE NvmeOpen
  <2>1. CASE CanOpen /\ OpenFd /\ pc' = "nvmeId"
    <3>1. Local = {} /\ Local' = {fd'} /\ pc' \in Opening
      BY <1>3, <2>1 DEF NvmeOpen, Local, Opening
    <3>2. UNCHANGED <<at, objVars, cur, path, todo, stayed, leaked>>
      BY <1>3 DEF NvmeOpen, enumVars
    <3>3. Core'
      BY <2>1, <3>1, <3>2, AcquireStep DEF objVars
    <3>4. Frame'
      BY <1>2, <2>1, <3>1, <3>2, GoOnFrame DEF Frame
    <3> QED BY <3>3, <3>4, Join
  <2>2. CASE ~CanOpen /\ pc' = "sgOpen" /\ UNCHANGED <<open, fd>>
    <3>1. Local = {} /\ Local' = {} /\ pc' \in Opening
      BY <1>3, <2>2 DEF NvmeOpen, Local, Opening
    <3>2. UNCHANGED <<at, objVars, cur, path, todo, stayed, leaked>>
      BY <1>3 DEF NvmeOpen, enumVars
    <3>3. Core'
      BY <2>2, <3>1, <3>2, QuietStep
    <3>4. Frame'
      BY <2>2, <3>1, <3>2, GoOnFrame DEF Frame
    <3> QED BY <3>3, <3>4, Join
  <2> QED BY <1>3, <2>1, <2>2 DEF NvmeOpen
<1>4. CASE NvmeId
  <2>1. Local = {fd} /\ UNCHANGED <<at, objVars, cur, path, fd, todo, stayed, leaked>>
    BY <1>4 DEF NvmeId, Local, enumVars, callVars
  <2>2. pc' \in Opening
    BY <1>4 DEF NvmeId, Opening
  <2>3. Frame'
    BY <2>1, <2>2, GoOnFrame DEF Frame
  <2>4. CASE pc' = "nvmeIdentify" /\ UNCHANGED open
    <3>1. Local' = {fd}
      BY <2>1, <2>4 DEF Local
    <3> QED BY <2>1, <2>3, <2>4, <3>1, QuietStep, Join
  <2>5. CASE CloseFd(fd) /\ pc' = "sgOpen"
    <3>1. Local' = {}
      BY <2>5 DEF Local
    <3>2. SameHolders /\ InfoOK'
      BY <2>1 DEF SameHolders, objVars, Core, TableOK, InfoOK
    <3> QED BY <2>1, <2>3, <2>5, <3>1, <3>2, DropStep, Join
  <2> QED BY <1>4, <2>4, <2>5 DEF NvmeId
<1>5. CASE NvmeIdentify
  <2>1. Local = {fd} /\ UNCHANGED <<at, open, cur, path, fd, todo, stayed>>
    BY <1>5 DEF NvmeIdentify, Local, enumVars, callVars
  <2>2. CASE Answers(Nvme) /\ Made("nvme", FALSE) /\ UNCHANGED leaked
    <3>1. Frame' /\ Local' = {}
      BY <2>1, <2>2, MadeFrame
    <3>2. Core'
      BY <2>1, <2>2, <3>1, HandOverStep DEF Answers, Drive
    <3> QED BY <3>1, <3>2, Join
  <2>3. CASE pc' = "sgOpen" /\ leaked' = leaked \cup {fd} /\ UNCHANGED objVars
    <3>1. Local' = {} /\ pc' \in Opening
      BY <2>3 DEF Local, Opening
    <3>2. Core'
      BY <2>1, <2>3, <3>1, LoseStep DEF objVars
    <3>3. Frame'
      BY <2>1, <2>3, <3>1, GoOnFrame DEF Frame
    <3> QED BY <3>2, <3>3, Join
  <2> QED BY <1>5, <2>2, <2>3 DEF NvmeIdentify
<1>6. CASE SgOpen
  <2>1. Local = {} /\ UNCHANGED <<at, cur, path, todo, stayed, leaked>>
    BY <1>6 DEF SgOpen, Local, enumVars
  <2>2. CASE CanOpen /\ OpenFd /\ pc' = "sgIdentify" /\ UNCHANGED objVars
    <3>1. Local' = {fd'} /\ pc' \in Opening
      BY <2>2 DEF Local, Opening
    <3>2. Core'
      BY <2>1, <2>2, <3>1, AcquireStep DEF objVars
    <3>3. Frame'
      BY <1>2, <2>1, <2>2, <3>1, GoOnFrame DEF Frame
    <3> QED BY <3>2, <3>3, Join
  <2>3. CASE Refuse /\ UNCHANGED <<open, fd>>
    <3>1. Frame' /\ SameHolders /\ InfoOK' /\ Local' = {}
      BY <2>1, <2>3, RefuseFrame
    <3>2. Core'
      BY <2>1, <2>3, <3>1, KeepStep
    <3> QED BY <3>1, <3>2, Join
  <2> QED BY <1>6, <2>2, <2>3 DEF SgOpen
<1>7. CASE SgIdentify
  <2>1. Local = {fd} /\ UNCHANGED <<at, cur, path, fd, todo, stayed, leaked>>
    BY <1>7 DEF SgIdentify, Local, enumVars, callVars
  <2>2. ASSUME NEW zeros \in BOOLEAN, Made("sg", zeros), UNCHANGED open,
               open[fd] \in Drive, open[fd] \in Ata \/ zeros
        PROVE  IInv'
    <3>1. Frame' /\ Local' = {}
      BY <2>1, <2>2, MadeFrame
    <3>2. Core'
      BY <2>1, <2>2, <3>1, HandOverStep
    <3> QED BY <3>1, <3>2, Join
  <2>3. CASE CloseFd(fd) /\ Refuse
    <3>1. Frame' /\ SameHolders /\ InfoOK' /\ Local' = {}
      BY <2>1, <2>3, RefuseFrame
    <3>2. Core'
      BY <2>1, <2>3, <3>1, DropStep
    <3> QED BY <3>1, <3>2, Join
  <2> QED BY <1>7, <2>2, <2>3 DEF SgIdentify, Answers, Drive
<1> QED BY <1>3, <1>4, <1>5, <1>6, <1>7

LEMMA ObjectStep ==
  ASSUME IInv, NEW h \in Handle, Close(h) \/ Destroy(h)
  PROVE  IInv'
<1> Core /\ Frame /\ h \in Object
  BY Split DEF Object
<1>1. CASE Close(h)
  <2>1. /\ UNCHANGED <<at, alive, failed, about, cur, path, fd, todo, stayed, leaked, pc>>
        /\ Local' = Local
    BY <1>1 DEF Close, Local, callVars, enumVars
  <2>2. Core'
    BY <1>1, <2>1, CloseStep DEF Close
  <2>3. \A g \in Object : driver'[g] # None => driver'[g] = driver[g]
    BY <1>1 DEF Close, Core, TableOK, InfoOK
  <2>4. ErrorAgrees'
    BY <2>1, <2>3 DEF Frame, ErrorAgrees
  <2>5. Frame'
    BY <2>1, <2>3, <2>4 DEF Frame
  <2> QED BY <2>2, <2>5, Join
<1>2. CASE Destroy(h)
  <2>1. /\ UNCHANGED <<at, open, cur, path, fd, todo, stayed, pc>> /\ Bury(h)
        /\ Local = {} /\ Local' = {} /\ pc' = "idle" /\ pc = "idle"
    BY <1>2 DEF Destroy, Local, callVars, enumVars
  <2>2. Scratch \notin alive'
    BY <2>1 DEF Frame, Bury
  <2>3. Core'
    BY <2>1, BuryStep
  <2>4. Frame'
    BY <2>1, <2>2, BuryFrame DEF Opening
  <2> QED BY <2>3, <2>4, Join
<1> QED BY <1>1, <1>2

LEMMA EnumStep ==
  ASSUME IInv, \/ \E h \in Handle, p \in Path : Open(h, p)
               \/ EnumDrives \/ ReadEntry \/ List \/ EnumReturns
  PROVE  IInv'
<1> Core /\ Frame
  BY Split
<1>1. ASSUME NEW h \in Handle, NEW p \in Path, Open(h, p) PROVE IInv'
  <2>1. /\ UNCHANGED <<at, open, objVars, todo, stayed, leaked>>
        /\ cur' = h /\ path' = p /\ fd' = 0 /\ pc' = "nvmeOpen" /\ pc = "idle"
        /\ Local = {} /\ Local' = {} /\ h \in Object /\ h \notin alive
    BY <1>1 DEF Open, Call, Local, Object, enumVars
  <2>2. Frame'
    BY <2>1 DEF Frame, objVars, ErrorAgrees, Opening
  <2> QED BY <2>1, <2>2, QuietStep, Join
<1>2. CASE EnumDrives \/ EnumReturns
  <2>1. /\ UNCHANGED <<at, open, objVars, cur, path, fd, leaked>>
        /\ todo' \subseteq Path /\ stayed' \subseteq Path
        /\ pc \in {"idle", "reading", "noDir"} /\ pc' \in {"idle", "reading", "noDir"}
        /\ Local = {} /\ Local' = {}
    BY <1>2 DEF EnumDrives, EnumReturns, Local, callVars, Frame
  <2>2. Frame'
    BY <2>1 DEF Frame, objVars, ErrorAgrees, Opening
  <2> QED BY <2>1, <2>2, QuietStep, Join
<1>3. CASE ReadEntry
  <2>1. PICK p \in todo :
          /\ todo' = todo \ {p}
          /\ IF at[p] = None THEN UNCHANGED <<pc, callVars>> ELSE Call(Scratch, p, "nvmeOpen")
    BY <1>3 DEF ReadEntry
  <2>2. /\ UNCHANGED <<at, open, objVars, stayed, leaked>> /\ pc = "reading"
        /\ pc' \in {"reading", "nvmeOpen"} /\ Local = {} /\ Local' = {}
        /\ path' \in Path /\ fd' \in Fd \cup {0}
        /\ cur' \in Object /\ (pc' = "nvmeOpen" => cur' = Scratch)
    BY <1>3, <2>1 DEF ReadEntry, Call, callVars, Local, Frame, Object
  <2>3. Frame'
    BY <2>1, <2>2 DEF Frame, objVars, ErrorAgrees, Opening
  <2> QED BY <2>2, <2>3, QuietStep, Join
<1>4. CASE List
  <2>1. /\ UNCHANGED <<at, open, cur, path, fd, todo, stayed>> /\ Bury(Scratch)
        /\ Local = {} /\ Local' = {} /\ pc' = "reading" /\ Scratch \in Object
    BY <1>4 DEF List, Local, callVars, Object
  <2>2. Scratch \notin alive'
    BY <2>1 DEF Bury
  <2>3. Core'
    BY <2>1, BuryStep
  <2>4. Frame'
    BY <2>1, <2>2, BuryFrame DEF Opening
  <2> QED BY <2>3, <2>4, Join
<1> QED BY <1>1, <1>2, <1>3, <1>4

LEMMA Step ==
  ASSUME IInv, [Next]_vars
  PROVE  IInv'
<1> Core /\ Frame
  BY Split
<1>1. ASSUME NEW p \in Path, Unplug(p) \/ \E d \in Drive : Plug(p, d) PROVE IInv'
  <2>1. /\ UNCHANGED <<open, objVars, cur, path, fd, todo, leaked, pc>>
        /\ at' \in [Path -> Drive \cup {None}] /\ stayed' \subseteq Path /\ Local' = Local
    BY <1>1 DEF Unplug, Plug, callVars, enumVars, Local, Frame
  <2>2. Frame'
    BY <2>1 DEF Frame, objVars, ErrorAgrees
  <2> QED BY <2>1, <2>2, QuietStep, Join
<1>2. CASE UNCHANGED vars
  BY <1>2 DEF vars, objVars, callVars, enumVars, IInv, TypeOK, OwnDescriptor, Accounted, Owned,
              ErrorAgrees, HolderInv, Local
<1>3. CASE NvmeOpen \/ NvmeId \/ NvmeIdentify \/ SgOpen \/ SgIdentify
  <2>1. pc \in Opening
    BY <1>3 DEF NvmeOpen, NvmeId, NvmeIdentify, SgOpen, SgIdentify, Opening
  <2> QED BY <1>3, <2>1, OpenStep
<1>4. CASE \E h \in Handle : Close(h) \/ Destroy(h)
  BY <1>4, ObjectStep
<1>5. CASE \/ \E h \in Handle, p \in Path : Open(h, p)
           \/ EnumDrives \/ ReadEntry \/ List \/ EnumReturns
  BY <1>5, EnumStep
<1> QED BY <1>1, <1>2, <1>3, <1>4, <1>5 DEF Next, Thread

\* The invariant holds however the program opens, enumerates, closes and
\* destroys, and whenever drives come and go.
THEOREM Invariance == Spec => []IInv
<1>1. Init => IInv
  BY InitInv
<1>2. IInv /\ [Next]_vars => IInv'
  BY Step
<1> QED BY <1>1, <1>2, PTL DEF Spec

\* The variables of the factory and the drivers keep their types.
THEOREM TypeCorrect == Spec => []TypeOK
<1>1. IInv => TypeOK
  BY DEF IInv
<1> QED BY <1>1, Invariance, PTL

\* An open object has a descriptor of its own, open on the drive that its
\* drive_info_ speaks of, however numbers were reused; the driver is the one for
\* such drives, or the SG driver with an identification of zeros.
THEOREM DescriptorIsOwn == Spec => []OwnDescriptor
<1>1. IInv => OwnDescriptor
  BY DEF IInv
<1> QED BY <1>1, Invariance, PTL

\* Descriptors are lost in the three known ways and in no other, on no path
\* through the drivers' open().
THEOREM AllAccounted == Spec => []Accounted
<1>1. IInv => Accounted
  BY DEF IInv
<1> QED BY <1>1, Invariance, PTL

\* isOpen() and getError() agree.
THEOREM ErrorsAgree == Spec => []ErrorAgrees
<1>1. IInv => ErrorAgrees
  BY DEF IInv
<1> QED BY <1>1, Invariance, PTL

-----------------------------------------------------------------------------
(* enumDrives *)

\* What is known of drive d, and whether that is zeros, may be listed.
Told(d, known, zeros) == known = d /\ (d \in Ata \cup Nvme \/ zeros)

\* The list has name p, with its drive or with an error.
Listed(p) == \E e \in list : e.path = p /\ (e.failed \/ Told(at[p], e.about, e.blank))

(***************************************************************************)
(* While enumDrives runs, a name that kept its drive is still to be read,  *)
(* or is the one being opened, or is listed.  What the open() under way    *)
(* learns of it is true.                                                   *)
(***************************************************************************)
EnumInv ==
  /\ stayed # {} => pc # "idle" /\ (pc \in Opening => cur = Scratch)
  /\ \A p \in stayed :
       /\ at[p] # None
       /\ p \in todo \/ Listed(p) \/ (p = path /\ pc \in Opening \cup {"listing"})
  /\ path \in stayed =>
       /\ pc \in {"nvmeId", "nvmeIdentify", "sgIdentify"} => open[fd] = at[path]
       /\ pc = "listing" => failed[Scratch] \/ Told(at[path], about[Scratch], blank[Scratch])

\* The steps of open() leave the loop as it is and go on, or end it.
LEMMA EnumOpenStep ==
  ASSUME IInv, EnumInv, NvmeOpen \/ NvmeId \/ NvmeIdentify \/ SgOpen \/ SgIdentify
  PROVE  EnumInv'
<1>0. TypeOK
  BY DEF IInv
<1>1. /\ pc \in Opening
      /\ UNCHANGED <<at, cur, path, enumVars, stayed>>
  BY DEF NvmeOpen, NvmeId, NvmeIdentify, SgOpen, SgIdentify, Opening, callVars
<1>2. pc' \in Opening \/ (pc' = IF cur = Scratch THEN "listing" ELSE "idle")
  BY DEF NvmeOpen, NvmeId, NvmeIdentify, SgOpen, SgIdentify, Opening, Made, Refuse
<1>3. stayed' # {} => cur' = Scratch /\ pc' # "idle"
  BY <1>1, <1>2 DEF EnumInv, Opening
<1>4. ASSUME NEW p \in stayed'
      PROVE  /\ at'[p] # None
             /\ p \in todo' \/ Listed(p)' \/ (p = path' /\ pc' \in Opening \cup {"listing"})
  BY <1>1, <1>2, <1>3, <1>4 DEF EnumInv, Listed, enumVars
<1>5. ASSUME path' \in stayed', pc' \in {"nvmeId", "nvmeIdentify", "sgIdentify"}
      PROVE  open'[fd'] = at'[path']
  <2>1. CASE CanOpen /\ OpenFd
    <3>1. Free # {} /\ Free \subseteq Nat
      BY <2>1 DEF CanOpen, Free, Fd
    <3>2. fd' \in Fd /\ open' = [open EXCEPT ![fd'] = at[path]]
      BY <2>1, <3>1, LowestIsFree DEF OpenFd, Free
    <3> QED BY <1>0, <1>1, <3>2 DEF TypeOK
  <2>2. CASE NvmeId /\ UNCHANGED <<open, fd>>
    BY <1>1, <1>5, <2>2 DEF NvmeId, EnumInv
  <2>3. (CanOpen /\ OpenFd) \/ (NvmeId /\ UNCHANGED <<open, fd>>)
    <3>1. Refuse => pc' \in {"listing", "idle"}
      BY DEF Refuse
    <3>2. \A name, zeros : Made(name, zeros) => pc' \in {"listing", "idle"}
      BY DEF Made
    <3> QED BY <1>5, <3>1, <3>2 DEF NvmeOpen, NvmeId, NvmeIdentify, SgOpen, SgIdentify, callVars
  <2> QED BY <2>1, <2>2, <2>3
<1>6. ASSUME path' \in stayed', pc' = "listing"
      PROVE  failed'[Scratch] \/ Told(at'[path'], about'[Scratch], blank'[Scratch])
  <2>1. cur = Scratch /\ Scratch \in Object
    BY <1>1, <1>6 DEF EnumInv, Object
  <2>2. CASE Refuse
    BY <1>0, <2>1, <2>2 DEF Refuse, TypeOK
  <2>3. ASSUME NEW name, NEW zeros, Made(name, zeros), pc \in {"nvmeIdentify", "sgIdentify"},
               open[fd] \in Ata \cup Nvme \/ zeros
        PROVE  Told(at'[path'], about'[Scratch], blank'[Scratch])
    <3>1. about'[Scratch] = open[fd] /\ blank'[Scratch] = zeros
      BY <1>0, <2>1, <2>3 DEF Made, TypeOK
    <3> QED BY <1>1, <1>6, <2>3, <3>1 DEF EnumInv, Told
  <2> QED BY <1>6, <2>2, <2>3 DEF NvmeOpen, NvmeId, NvmeIdentify, SgOpen, SgIdentify, Answers
<1> QED BY <1>3, <1>4, <1>5, <1>6 DEF EnumInv

LEMMA EnumLoopStep ==
  ASSUME IInv, EnumInv, EnumDrives \/ ReadEntry \/ List \/ EnumReturns
  PROVE  EnumInv'
<1>0. TypeOK
  BY DEF IInv
<1>1. CASE EnumDrives
  <2>1. CASE pc' = "reading" /\ todo' = Path /\ stayed' = {p \in Path : at[p] # None} /\ at' = at
    BY <2>1 DEF EnumInv, Opening
  <2>2. CASE pc' = "noDir" /\ UNCHANGED stayed
    <3>1. stayed' = {}
      BY <1>1, <2>2 DEF EnumDrives, EnumInv
    <3> QED BY <2>2, <3>1 DEF EnumInv
  <2> QED BY <1>1, <2>1, <2>2 DEF EnumDrives
<1>2. CASE ReadEntry
  <2>1. PICK p \in todo :
          /\ todo' = todo \ {p}
          /\ IF at[p] = None THEN UNCHANGED <<pc, callVars>> ELSE Call(Scratch, p, "nvmeOpen")
    BY <1>2 DEF ReadEntry
  <2>2. pc = "reading" /\ UNCHANGED <<at, open, list, stayed>>
    BY <1>2 DEF ReadEntry
  <2>3. pc' = "reading" \/ (pc' = "nvmeOpen" /\ cur' = Scratch)
    BY <2>1, <2>2 DEF Call
  <2>4. ASSUME NEW r \in stayed'
        PROVE  /\ at'[r] # None
               /\ r \in todo' \/ Listed(r)' \/ (r = path' /\ pc' \in Opening \cup {"listing"})
    <3>1. at[r] # None /\ (r \in todo \/ Listed(r))
      BY <2>2, <2>4 DEF EnumInv, Opening
    <3>2. Listed(r) => Listed(r)'
      BY <2>2 DEF Listed
    <3>3. r = p => path' = r /\ pc' \in Opening
      BY <2>1, <3>1 DEF Call, Opening
    <3> QED BY <2>1, <2>2, <3>1, <3>2, <3>3
  <2> QED BY <2>3, <2>4 DEF EnumInv, Opening
<1>3. CASE List
  <2>1. /\ pc = "listing" /\ pc' = "reading" /\ UNCHANGED <<at, path, todo, stayed>>
        /\ list' = list \cup {[path |-> path, failed |-> failed[Scratch], about |-> about[Scratch],
                             blank |-> blank[Scratch]]}
    BY <1>3 DEF List, callVars
  <2>2. ASSUME NEW r \in stayed'
        PROVE  at'[r] # None /\ (r \in todo' \/ Listed(r)')
    <3>1. Listed(r) => Listed(r)'
      BY <2>1 DEF Listed
    <3>2. ASSUME r = path PROVE Listed(r)'
      <4> DEFINE new == [path |-> path, failed |-> failed[Scratch], about |-> about[Scratch],
                             blank |-> blank[Scratch]]
      <4>1. new \in list' /\ new.path = r /\ (new.failed \/ Told(at'[r], new.about, new.blank))
        BY <2>1, <2>2, <3>2 DEF EnumInv
      <4> QED BY <4>1 DEF Listed
    <3> QED BY <2>1, <2>2, <3>1, <3>2 DEF EnumInv
  <2> QED BY <2>1, <2>2 DEF EnumInv, Opening
<1>4. CASE EnumReturns
  BY <1>4 DEF EnumReturns, EnumInv
<1> QED BY <1>1, <1>2, <1>3, <1>4

\* Drives that move are not among those that stayed.
LEMMA EnumMachineStep ==
  ASSUME IInv, EnumInv, NEW p \in Path, Unplug(p) \/ \E d \in Drive : Plug(p, d)
  PROVE  EnumInv'
<1>1. /\ UNCHANGED <<open, objVars, pc, cur, path, fd, todo, list>>
      /\ stayed' \subseteq stayed
  BY DEF Unplug, Plug, callVars, enumVars
<1>2. \A r \in stayed' : at'[r] = at[r]
  <2>1. at \in [Path -> Drive \cup {None}] /\ stayed \subseteq Path
    BY DEF IInv, TypeOK
  <2> QED BY <2>1 DEF Unplug, Plug, EnumInv
<1>3. \A r \in stayed' : Listed(r) => Listed(r)'
  BY <1>1, <1>2 DEF Listed
<1> QED BY <1>1, <1>2, <1>3 DEF EnumInv, objVars

LEMMA EnumInvStep ==
  ASSUME IInv, EnumInv, [Next]_vars
  PROVE  EnumInv'
<1>1. ASSUME NEW h \in Handle, \/ \E p \in Path : Open(h, p)
                               \/ Close(h) \/ Destroy(h)
      PROVE  EnumInv'
  <2>1. pc = "idle" /\ UNCHANGED stayed
    BY <1>1 DEF Open, Close, Destroy
  <2> QED BY <2>1 DEF EnumInv
<1>2. CASE UNCHANGED vars
  BY <1>2 DEF vars, objVars, callVars, enumVars, EnumInv, Listed
<1> QED BY <1>1, <1>2, EnumOpenStep, EnumLoopStep, EnumMachineStep DEF Next, Thread

\* An enumDrives that finds its directory lists every name that kept its drive
\* while it ran, with the drive's own identification, or with an error, or with
\* the zeros of one that the SG driver could not read, whatever was plugged and unplugged meanwhile, and whichever
\* of the two drivers' open() failed on the way (drive_factory.cc, enumDrives).
THEOREM AllEnumerated == Spec => []Enumerates
<1>1. Init => EnumInv
  BY DEF Init, EnumInv
<1>2. IInv /\ EnumInv /\ [Next]_vars => EnumInv'
  BY EnumInvStep
<1>3. EnumInv => Enumerates
  BY DEF EnumInv, Enumerates, Listed, Told, Opening
<1> QED BY <1>1, <1>2, <1>3, Invariance, PTL DEF Spec
=============================================================================
