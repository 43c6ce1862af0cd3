-------------------------- MODULE TeamSharingProofs --------------------------
(***************************************************************************)
(* What TeamSharing says of packages and of imports, for any number of     *)
(* members, channels, packages and files, every project they come from and *)
(* every fault.                                                            *)
(***************************************************************************)
EXTENDS TeamSharing, TLAPS

\* Maps from some of the files.
FilesTo(S) == UNION { [F -> S] : F \in SUBSET File }

LEMMA NothingIs ==
  ASSUME NEW S
  PROVE  Nothing \in FilesTo(S)
<1>1. Nothing \in [{} -> S]
  BY DEF Nothing
<1>2. QED
  BY <1>1 DEF FilesTo

\* One more file is mapped.
LEMMA OneMore ==
  ASSUME NEW S, NEW map \in FilesTo(S), NEW f \in File, NEW x \in S
  PROVE  /\ With(map, f, x) \in FilesTo(S)
         /\ DOMAIN With(map, f, x) = DOMAIN map \cup {f}
         /\ With(map, f, x)[f] = x
         /\ \A g \in DOMAIN map \ {f} : With(map, f, x)[g] = map[g]
<1>1. With(map, f, x) = [g \in DOMAIN map \cup {f} |-> IF g = f THEN x ELSE map[g]]
  BY DEF With
<1>2. DOMAIN map \in SUBSET File /\ \A g \in DOMAIN map : map[g] \in S
  BY DEF FilesTo
<1>3. [g \in DOMAIN map \cup {f} |-> IF g = f THEN x ELSE map[g]] \in [DOMAIN map \cup {f} -> S]
  BY <1>2
<1>4. QED
  BY <1>1, <1>2, <1>3 DEF FilesTo

----------------------------------------------------------------------------
(* The channel. *)

CallRecord ==
  [pc : {"idle", "describe", "open", "register", "export", "persist"}, id : ChannelId \cup {NoId},
   todo : SUBSET File, wanted : FilesTo(SUBSET Key), package : FilesTo(Bytes), torn : Nat,
   opened : SUBSET Folder, seen : SUBSET Origin]

MemberRecord == [registered : SUBSET ChannelId, call : CallRecord]

FolderRecord ==
  [descriptor : ChannelId \cup {NoId}, directory : BOOLEAN,
   packages : UNION { [S -> FilesTo(Bytes)] : S \in SUBSET PackageId }]

ChannelTypeOK ==
  /\ folders \in [Folder -> FolderRecord]
  /\ mounted \in Folder
  /\ member \in [Member -> MemberRecord]
  /\ origin \in [Publisher -> Origin]

\* What a package holds of a file was selected, and in the project o.
FileFrom(o, wanted, f, bytes) == Exportable(o.files[f], wanted[f]) /\ bytes = Taken(o.files[f], wanted[f])

\* What is so far in the package of an export.
PartHolds(c) ==
  /\ c.todo \subseteq DOMAIN c.wanted /\ DOMAIN c.package = DOMAIN c.wanted \ c.todo
  /\ \A f \in DOMAIN c.package : \E o \in c.seen : FileFrom(o, c.wanted, f, c.package[f])

\* What a member's command c relies on in the folders at and its project from.
Holds(m, c, at, from) ==
  /\ c.pc \in {"open", "register"} => \E d \in Folder : at[d].descriptor = c.id /\ c.id # NoId
  /\ c.pc \in {"export", "persist"} =>
       /\ m \in Publisher /\ c.id # NoId /\ PartHolds(c)
       /\ \A d \in c.opened : at[d].descriptor = c.id
  /\ c.pc = "export" => from[m] \in c.seen
  /\ c.pc = "persist" => c.todo = {}

ChannelInv ==
  /\ ChannelTypeOK
  /\ \A m \in Member : Holds(m, member[m].call, folders, origin)
  /\ RegisteredChannelsExist

\* No descriptor is changed once it is there.
DescriptorsStay ==
  \A d \in Folder : folders[d].descriptor # NoId => folders'[d].descriptor = folders[d].descriptor

LEMMA IdleIs == Idle \in CallRecord /\ Idle.pc = "idle" /\ Idle.id = NoId /\ Idle.package = Nothing
<1>1. Nothing \in FilesTo(SUBSET Key) /\ Nothing \in FilesTo(Bytes)
  BY NothingIs
<1>2. QED
  BY <1>1 DEF Idle, CallRecord

LEMMA IdleHolds == ASSUME NEW m, NEW at, NEW from PROVE Holds(m, Idle, at, from)
BY IdleIs DEF Holds

LEMMA ChannelInitially ==
  ASSUME ChannelInit
  PROVE  ChannelInv
<1>1. Nothing \in [{} -> FilesTo(Bytes)]
  BY DEF Nothing
<1>2. Earlier \subseteq FilesTo(Bytes)
  BY EarlierAssumption DEF FilesTo
<1>3. \A p \in {Nothing} \cup [PackageId -> Earlier] :
        p \in UNION { [S -> FilesTo(Bytes)] : S \in SUBSET PackageId }
  <2>1. ASSUME NEW p \in [PackageId -> Earlier]
        PROVE  p \in [PackageId -> FilesTo(Bytes)]
    BY <1>2
  <2>2. QED
    BY <1>1, <2>1
<1>4. folders \in [Folder -> FolderRecord]
  <2>1. ASSUME NEW p \in {Nothing} \cup [PackageId -> Earlier]
        PROVE  [descriptor |-> NoId, directory |-> p # Nothing, packages |-> p] \in FolderRecord
    BY <1>3 DEF FolderRecord
  <2>2. QED
    BY <2>1 DEF ChannelInit
<1>5. \A m \in Member : member[m] = [registered |-> {}, call |-> Idle]
  BY DEF ChannelInit
<1>6. member \in [Member -> MemberRecord]
  BY <1>5, IdleIs DEF ChannelInit, MemberRecord
<1>7. QED
  BY <1>4, <1>5, <1>6, IdleHolds DEF ChannelInv, ChannelTypeOK, ChannelInit, RegisteredChannelsExist

LEMMA ReadyInitially ==
  ASSUME ChannelReady
  PROVE  ChannelInv
<1>1. PICK id \in ChannelId, p \in Packages :
        /\ folders = [d \in Folder |->
             IF d = mounted
               THEN [descriptor |-> id, directory |-> TRUE, packages |-> [q \in PackageId |-> p]]
               ELSE [descriptor |-> NoId, directory |-> FALSE, packages |-> Nothing]]
        /\ member = [m \in Member |->
             [registered |-> IF m = Receiver THEN {id} ELSE {}, call |-> Idle]]
  BY DEF ChannelReady
<1>2. mounted \in Folder /\ origin \in [Publisher -> Origin]
  BY DEF ChannelReady
<1>3. Nothing \in [{} -> FilesTo(Bytes)] /\ [q \in PackageId |-> p] \in [PackageId -> FilesTo(Bytes)]
  BY DEF Nothing, Packages, FilesTo
<1>4. Nothing \in UNION { [S -> FilesTo(Bytes)] : S \in SUBSET PackageId }
      /\ [q \in PackageId |-> p] \in UNION { [S -> FilesTo(Bytes)] : S \in SUBSET PackageId }
  BY <1>3
<1> DEFINE packages == [q \in PackageId |-> p]
<1> HIDE DEF packages
<1>5. folders \in [Folder -> FolderRecord] /\ folders[mounted].descriptor = id
  BY <1>1, <1>2, <1>4 DEF FolderRecord, packages
<1>6. /\ member \in [Member -> MemberRecord]
      /\ \A m \in Member : member[m].call = Idle /\ member[m].registered \subseteq {id}
  BY <1>1, IdleIs DEF MemberRecord
<1>7. RegisteredChannelsExist
  BY <1>2, <1>5, <1>6 DEF RegisteredChannelsExist
<1>8. QED
  BY <1>2, <1>5, <1>6, <1>7, IdleHolds DEF ChannelInv, ChannelTypeOK

\* What the invariant says of a member.
LEMMA CallFacts ==
  ASSUME ChannelInv, NEW m \in Member
  PROVE  /\ member[m].call \in CallRecord /\ member[m].registered \in SUBSET ChannelId
         /\ member[m] \in MemberRecord /\ member \in [Member -> MemberRecord]
         /\ Holds(m, member[m].call, folders, origin)
         /\ \A id \in member[m].registered : \E d \in Folder : folders[d].descriptor = id
         /\ AtPath \in FolderRecord /\ folders \in [Folder -> FolderRecord]
         /\ mounted \in Folder /\ origin \in [Publisher -> Origin]
BY DEF ChannelInv, ChannelTypeOK, MemberRecord, AtPath, RegisteredChannelsExist

\* What holds of a command does while descriptors stay and its project is not written.
LEMMA StillHolds ==
  ASSUME ChannelInv, DescriptorsStay, NEW m \in Member, NEW c \in CallRecord,
         Holds(m, c, folders, origin), m \in Publisher => origin'[m] = origin[m]
  PROVE  Holds(m, c, folders', origin')
<1>1. c.opened \subseteq Folder
  BY DEF CallRecord
<1>2. c.pc \in {"open", "register"} => \E d \in Folder : folders'[d].descriptor = c.id /\ c.id # NoId
  BY DEF Holds, DescriptorsStay
<1>3. c.pc \in {"export", "persist"} => \A d \in c.opened : folders'[d].descriptor = c.id
  BY <1>1 DEF Holds, DescriptorsStay
<1>4. c.pc = "export" => origin'[m] \in c.seen
  BY DEF Holds
<1>5. QED
  BY <1>2, <1>3, <1>4 DEF Holds

\* One member changes; the descriptors that are there stay, and so do the projects of the others.
LEMMA MemberStep ==
  ASSUME ChannelInv, NEW m \in Member, NEW registered \in SUBSET ChannelId, NEW c \in CallRecord,
         member' = [member EXCEPT ![m] = [registered |-> registered, call |-> c]],
         Holds(m, c, folders', origin'),
         \A id \in registered : \E d \in Folder : folders'[d].descriptor = id,
         folders' \in [Folder -> FolderRecord], mounted' \in Folder, DescriptorsStay,
         origin' \in [Publisher -> Origin], \A n \in Publisher \ {m} : origin'[n] = origin[n]
  PROVE  ChannelInv'
<1> DEFINE record == [registered |-> registered, call |-> c]
<1>1. record \in MemberRecord /\ record.registered = registered /\ record.call = c
  BY DEF MemberRecord
<1> HIDE DEF record
<1>2. /\ member' \in [Member -> MemberRecord] /\ member'[m] = record
      /\ \A n \in Member \ {m} : member'[n] = member[n]
  BY <1>1 DEF ChannelInv, ChannelTypeOK, record
<1>3. ASSUME NEW n \in Member \ {m}
      PROVE  /\ Holds(n, member'[n].call, folders', origin')
             /\ \A id \in member'[n].registered : \E d \in Folder : folders'[d].descriptor = id
  <2>1. Holds(n, member[n].call, folders', origin')
    BY CallFacts, StillHolds
  <2>2. \A id \in member[n].registered : id # NoId /\ \E d \in Folder : folders[d].descriptor = id
    BY CallFacts, IdAssumption
  <2>3. QED
    BY <1>2, <2>1, <2>2 DEF DescriptorsStay
<1>4. \A n \in Member : Holds(n, member'[n].call, folders', origin')
  BY <1>1, <1>2, <1>3
<1>5. RegisteredChannelsExist'
  BY <1>1, <1>2, <1>3 DEF RegisteredChannelsExist
<1>6. QED
  BY <1>2, <1>4, <1>5 DEF ChannelInv, ChannelTypeOK

\* What stays when the folders do.
LEMMA SameFolders ==
  ASSUME ChannelInv, UNCHANGED folderVars
  PROVE  folders' \in [Folder -> FolderRecord] /\ mounted' \in Folder /\ DescriptorsStay
BY DEF ChannelInv, ChannelTypeOK, DescriptorsStay, folderVars

\* A call goes on, in folders that are as they were.
LEMMA GoesOn ==
  ASSUME ChannelInv, NEW m \in Member, NEW c \in CallRecord, Goes(m, c), UNCHANGED folderVars,
         Holds(m, c, folders, origin'),
         origin' \in [Publisher -> Origin], \A n \in Publisher \ {m} : origin'[n] = origin[n]
  PROVE  ChannelInv'
<1>1. member' = [member EXCEPT ![m] = [registered |-> member[m].registered, call |-> c]]
  <2>1. [member[m] EXCEPT !.call = c] = [registered |-> member[m].registered, call |-> c]
    <3>1. member[m] \in MemberRecord
      BY CallFacts
    <3>2. QED
      BY <3>1 DEF MemberRecord
  <2>2. QED
    BY <2>1 DEF Goes
<1>2. folders' = folders
  BY DEF folderVars
<1>3. \A id \in member[m].registered : \E d \in Folder : folders'[d].descriptor = id
  BY <1>2, CallFacts
<1>4. QED
  BY <1>1, <1>2, <1>3, SameFolders, CallFacts, MemberStep

LEMMA ChannelReturns ==
  ASSUME ChannelInv, NEW m \in Member, Returns(m), UNCHANGED <<folderVars, origin>>
  PROVE  ChannelInv'
<1>1. origin' \in [Publisher -> Origin] /\ UNCHANGED origin /\ UNCHANGED folderVars
  BY CallFacts
<1>2. Goes(m, Idle)
  BY DEF Returns
<1>3. QED
  BY <1>1, <1>2, IdleIs, IdleHolds, GoesOn

\* A call goes on, in folders that a step of it has changed.
LEMMA GoesOnIn ==
  ASSUME ChannelInv, NEW m \in Member, NEW c \in CallRecord, Goes(m, c), UNCHANGED <<mounted, origin>>,
         folders' \in [Folder -> FolderRecord], DescriptorsStay, Holds(m, c, folders', origin)
  PROVE  ChannelInv'
<1>1. member' = [member EXCEPT ![m] = [registered |-> member[m].registered, call |-> c]]
  <2>1. [member[m] EXCEPT !.call = c] = [registered |-> member[m].registered, call |-> c]
    <3>1. member[m] \in MemberRecord
      BY CallFacts
    <3>2. QED
      BY <3>1 DEF MemberRecord
  <2>2. QED
    BY <2>1 DEF Goes
<1>2. ASSUME NEW id \in member[m].registered
      PROVE  \E d \in Folder : folders'[d].descriptor = id
  <2>1. id # NoId
    BY CallFacts, IdAssumption
  <2>2. PICK d \in Folder : folders[d].descriptor = id
    BY CallFacts
  <2>3. QED
    BY <2>1, <2>2 DEF DescriptorsStay
<1>3. QED
  BY <1>1, <1>2, CallFacts, MemberStep

LEMMA ConnectExistingStep ==
  ASSUME ChannelInv, NEW m \in Member, ConnectExisting(m)
  PROVE  ChannelInv'
<1> DEFINE c == [Idle EXCEPT !.pc = "open", !.id = AtPath.descriptor]
<1>1. Goes(m, c) /\ AtPath.descriptor # NoId /\ UNCHANGED folderVars /\ UNCHANGED origin
  BY DEF ConnectExisting
<1>2. AtPath.descriptor \in ChannelId \cup {NoId} /\ mounted \in Folder
  BY CallFacts DEF FolderRecord
<1>3. c \in CallRecord /\ c.pc = "open" /\ c.id = AtPath.descriptor
  BY <1>2, IdleIs DEF CallRecord
<1> HIDE DEF c
<1>4. Holds(m, c, folders, origin')
  BY <1>1, <1>2, <1>3 DEF Holds, AtPath
<1>5. QED
  BY <1>1, <1>3, <1>4, CallFacts, GoesOn

LEMMA ConnectNewStep ==
  ASSUME ChannelInv, NEW m \in Member, ConnectNew(m)
  PROVE  ChannelInv'
<1> DEFINE c == [Idle EXCEPT !.pc = "describe"]
<1>1. Goes(m, c) /\ UNCHANGED <<mounted, origin>> /\ folders' = [folders EXCEPT ![mounted].directory = TRUE]
  BY DEF ConnectNew
<1>2. c \in CallRecord /\ c.pc = "describe"
  BY IdleIs DEF CallRecord
<1>3. folders' \in [Folder -> FolderRecord] /\ DescriptorsStay
  <2>1. [folders[mounted] EXCEPT !.directory = TRUE] \in FolderRecord
        /\ [folders[mounted] EXCEPT !.directory = TRUE].descriptor = folders[mounted].descriptor
    BY CallFacts DEF FolderRecord, AtPath
  <2>2. folders' = [folders EXCEPT ![mounted] = [folders[mounted] EXCEPT !.directory = TRUE]]
    BY <1>1
  <2>3. QED
    BY <2>1, <2>2, CallFacts DEF DescriptorsStay
<1> HIDE DEF c
<1>4. Holds(m, c, folders', origin)
  BY <1>2 DEF Holds
<1>5. QED
  BY <1>1, <1>2, <1>3, <1>4, GoesOnIn

LEMMA OpenStep ==
  ASSUME ChannelInv, NEW m \in Member, Open(m)
  PROVE  ChannelInv'
<1> DEFINE c == [member[m].call EXCEPT !.pc = "register"]
<1>1. (Goes(m, c) \/ Returns(m)) /\ UNCHANGED folderVars /\ UNCHANGED origin /\ member[m].call.pc = "open"
  BY DEF Open, In
<1>2. c \in CallRecord /\ c.pc = "register" /\ c.id = member[m].call.id
  <2>1. member[m].call \in CallRecord
    BY CallFacts
  <2>2. QED
    BY <2>1 DEF CallRecord
<1> HIDE DEF c
<1>3. Holds(m, c, folders, origin')
  <2>1. Holds(m, member[m].call, folders, origin)
    BY CallFacts
  <2>2. QED
    BY <1>1, <1>2, <2>1 DEF Holds
<1>4. CASE Goes(m, c)
  BY <1>1, <1>2, <1>3, <1>4, CallFacts, GoesOn
<1>5. QED
  BY <1>1, <1>4, ChannelReturns

LEMMA DescribeStep ==
  ASSUME ChannelInv, NEW m \in Member, Describe(m)
  PROVE  ChannelInv'
<1>1. CASE AtPath.descriptor # NoId
  BY <1>1, ChannelReturns DEF Describe, folderVars
<1>2. CASE AtPath.descriptor = NoId
  <2>1. PICK id \in Fresh : /\ folders' = [folders EXCEPT ![mounted].descriptor = id]
                            /\ Goes(m, [Idle EXCEPT !.pc = "open", !.id = id])
    BY <1>2 DEF Describe
  <2> DEFINE c == [Idle EXCEPT !.pc = "open", !.id = id]
             made == [folders[mounted] EXCEPT !.descriptor = id]
  <2>2. id \in ChannelId /\ id # NoId
    BY IdAssumption DEF Fresh
  <2>3. made \in FolderRecord /\ made.descriptor = id
    BY <2>2, CallFacts DEF FolderRecord, AtPath
  <2>4. folders' = [folders EXCEPT ![mounted] = made]
    BY <2>1
  <2> HIDE DEF made
  <2>5. folders' \in [Folder -> FolderRecord] /\ folders'[mounted].descriptor = id /\ DescriptorsStay
    BY <1>2, <2>3, <2>4, CallFacts DEF DescriptorsStay, AtPath
  <2>6. c \in CallRecord /\ c.pc = "open" /\ c.id = id
    BY <2>2, IdleIs DEF CallRecord
  <2>7. Goes(m, c) /\ UNCHANGED <<mounted, origin>>
    BY <2>1 DEF Describe
  <2> HIDE DEF c
  <2>8. Holds(m, c, folders', origin)
    BY <2>2, <2>5, <2>6, CallFacts DEF Holds
  <2>9. QED
    BY <2>5, <2>6, <2>7, <2>8, GoesOnIn
<1>3. QED
  BY <1>1, <1>2

LEMMA RegisterSteps ==
  ASSUME ChannelInv, NEW m \in Member, Register(m) \/ Unregister(m)
  PROVE  ChannelInv'
<1>1. UNCHANGED folderVars /\ UNCHANGED origin /\ folders' = folders
  BY DEF Register, Unregister, folderVars
<1>2. ASSUME NEW r \in SUBSET ChannelId, \A id \in r : \E d \in Folder : folders[d].descriptor = id,
             member' = [member EXCEPT ![m] = [registered |-> r, call |-> Idle]]
      PROVE  ChannelInv'
  <2>1. Holds(m, Idle, folders', origin') /\ Idle \in CallRecord
    BY IdleIs, IdleHolds
  <2>2. folders' \in [Folder -> FolderRecord] /\ mounted' \in Folder /\ DescriptorsStay
    BY <1>1, SameFolders
  <2>3. origin' \in [Publisher -> Origin]
    BY <1>1, CallFacts
  <2>4. QED
    BY ONLY ChannelInv, m \in Member, r \in SUBSET ChannelId, <1>1, <1>2, <2>1, <2>2, <2>3, MemberStep
<1>3. CASE Register(m)
  <2>1. Holds(m, member[m].call, folders, origin) /\ member[m].call.pc = "register"
    BY <1>3, CallFacts DEF Register, In
  <2>2. member[m].call.id \in ChannelId /\ \E d \in Folder : folders[d].descriptor = member[m].call.id
    BY <2>1, CallFacts DEF Holds, CallRecord
  <2> DEFINE r == member[m].registered \cup {member[m].call.id}
  <2>3. r \in SUBSET ChannelId /\ \A id \in r : \E d \in Folder : folders[d].descriptor = id
    BY <2>2, CallFacts
  <2>4. member' = [member EXCEPT ![m] = [registered |-> r, call |-> Idle]]
    BY <1>3 DEF Register, ChannelInv, ChannelTypeOK
  <2> HIDE DEF r
  <2>5. QED
    BY <1>2, <2>3, <2>4
<1>4. CASE Unregister(m)
  <2>1. PICK id \in member[m].registered : member' = [member EXCEPT ![m].registered = @ \ {id}]
    BY <1>4 DEF Unregister
  <2> DEFINE r == member[m].registered \ {id}
  <2>2. r \in SUBSET ChannelId /\ \A x \in r : \E d \in Folder : folders[d].descriptor = x
    BY CallFacts
  <2>3. member' = [member EXCEPT ![m] = [registered |-> r, call |-> member[m].call]]
    <3>1. [member[m] EXCEPT !.registered = r] = [registered |-> r, call |-> member[m].call]
      <4>1. member[m] \in MemberRecord
        BY CallFacts
      <4>2. QED
        BY <4>1 DEF MemberRecord
    <3>2. QED
      BY <2>1, <3>1
  <2> HIDE DEF r
  <2>4. Holds(m, member[m].call, folders', origin')
    BY <1>1, CallFacts
  <2>5. QED
    BY <1>1, <2>2, <2>3, <2>4, CallFacts, SameFolders, MemberStep
<1>5. QED
  BY <1>3, <1>4

----------------------------------------------------------------------------
\* What is selected maps files to keys.
LEMMA SelectionIs ==
  ASSUME NEW files, NEW s \in Selection(files)
  PROVE  s \in FilesTo(SUBSET Key)
<1>1. CASE s = [f \in { g \in File : files[g] # NoFile } |-> Whole]
  <2>1. s \in [{ g \in File : files[g] # NoFile } -> SUBSET Key]
    BY <1>1 DEF Whole
  <2>2. QED
    BY <2>1 DEF FilesTo
<1>2. CASE \E S \in SUBSET File : s \in [S -> SUBSET Key \ {{}}]
  <2>1. PICK S \in SUBSET File : s \in [S -> SUBSET Key \ {{}}]
    BY <1>2
  <2>2. s \in [S -> SUBSET Key]
    BY <2>1
  <2>3. QED
    BY <2>2 DEF FilesTo
<1>3. QED
  BY <1>1, <1>2 DEF Selection

LEMMA BeginPublishStep ==
  ASSUME ChannelInv, NEW m \in Member, BeginPublish(m)
  PROVE  ChannelInv'
<1>1. PICK id \in member[m].registered, s \in Selection(origin[m].files) :
        /\ Opens(id)
        /\ Goes(m, [Idle EXCEPT !.pc = IF DOMAIN s = {} THEN "persist" ELSE "export", !.id = id,
                                !.todo = DOMAIN s, !.wanted = s, !.opened = {mounted},
                                !.seen = {origin[m]}])
  BY DEF BeginPublish
<1> DEFINE pc == IF DOMAIN s = {} THEN "persist" ELSE "export"
           c == [Idle EXCEPT !.pc = pc, !.id = id, !.todo = DOMAIN s, !.wanted = s,
                             !.opened = {mounted}, !.seen = {origin[m]}]
<1>2. s \in FilesTo(SUBSET Key) /\ DOMAIN s \in SUBSET File
  BY SelectionIs DEF FilesTo
<1>3. id \in ChannelId /\ id # NoId /\ id = folders[mounted].descriptor
  BY <1>1, CallFacts, IdAssumption DEF Opens, AtPath
<1>4. pc \in {"persist", "export"} /\ (pc = "persist" => DOMAIN s = {})
  OBVIOUS
<1>5. m \in Publisher /\ origin[m] \in Origin /\ mounted \in Folder
  BY CallFacts DEF BeginPublish
<1>6. Goes(m, c)
  BY <1>1
<1> HIDE DEF pc
<1>7. /\ c \in CallRecord /\ c.pc = pc /\ c.id = id /\ c.todo = DOMAIN s /\ c.wanted = s
      /\ c.package = Nothing /\ c.opened = {mounted} /\ c.seen = {origin[m]}
  BY <1>2, <1>3, <1>4, <1>5, IdleIs DEF CallRecord
<1>8. UNCHANGED folderVars /\ UNCHANGED origin
  BY DEF BeginPublish
<1> HIDE DEF c
<1>9. PartHolds(c)
  BY <1>7 DEF PartHolds, Nothing
<1>10. Holds(m, c, folders, origin')
  BY <1>3, <1>4, <1>5, <1>7, <1>8, <1>9 DEF Holds
<1>11. QED
  BY <1>6, <1>7, <1>8, <1>10, CallFacts, GoesOn

\* What is taken of a file is a file's content.
LEMMA TakenIs ==
  ASSUME NEW content \in Bytes, NEW keys
  PROVE  Taken(content, keys) \in Bytes
BY DEF Taken, Bytes

LEMMA ExportFileStep ==
  ASSUME ChannelInv, NEW m \in Member, ExportFile(m)
  PROVE  ChannelInv'
<1> DEFINE call == member[m].call
           now(f) == origin[m].files[f]
           package(f) == With(call.package, f, Taken(now(f), call.wanted[f]))
           pc(f) == IF call.todo = {f} THEN "persist" ELSE call.pc
           c(f) == [call EXCEPT !.package = package(f), !.todo = @ \ {f}, !.pc = pc(f)]
<1>1. UNCHANGED folderVars /\ UNCHANGED origin /\ call.pc = "export"
  BY DEF ExportFile, In
<1>2. PICK f \in Earliest(call.todo) :
        \/ Exportable(now(f), call.wanted[f]) /\ Goes(m, c(f))
        \/ Returns(m)
  BY DEF ExportFile
<1>3. CASE Returns(m)
  BY <1>1, <1>3, ChannelReturns
<1>4. CASE Exportable(now(f), call.wanted[f]) /\ Goes(m, c(f))
  <2>1. call \in CallRecord /\ f \in File /\ f \in call.todo /\ Holds(m, call, folders, origin)
    BY CallFacts DEF Earliest, CallRecord
  <2>2. m \in Publisher /\ origin[m] \in call.seen /\ PartHolds(call) /\ origin[m] \in Origin
    BY <1>1, <2>1, CallFacts DEF Holds
  <2>3. now(f) \in Bytes
    BY <1>4, <2>1, <2>2, OriginAssumption DEF Exportable, Content
  <2> DEFINE taken == Taken(now(f), call.wanted[f])
  <2>4. taken \in Bytes
    BY <2>3, TakenIs
  <2>5. FileFrom(origin[m], call.wanted, f, taken)
    BY <1>4 DEF FileFrom
  <2> HIDE DEF taken
  <2>6. /\ package(f) \in FilesTo(Bytes) /\ DOMAIN package(f) = DOMAIN call.package \cup {f}
        /\ package(f)[f] = taken /\ \A g \in DOMAIN call.package \ {f} : package(f)[g] = call.package[g]
    <3>1. call.package \in FilesTo(Bytes)
      BY <2>1 DEF CallRecord
    <3>2. package(f) = With(call.package, f, taken)
      BY DEF taken
    <3>3. PICK old \in FilesTo(Bytes), x \in Bytes : old = call.package /\ x = taken
      BY <2>4, <3>1
    <3>4. /\ With(old, f, x) \in FilesTo(Bytes) /\ DOMAIN With(old, f, x) = DOMAIN old \cup {f}
          /\ With(old, f, x)[f] = x /\ \A g \in DOMAIN old \ {f} : With(old, f, x)[g] = old[g]
      <4>1. f \in File
        BY <2>1
      <4> HIDE DEF package, call, now, pc, c
      <4>2. With(old, f, x) \in FilesTo(Bytes)
        BY <4>1, OneMore
      <4>3. With(old, f, x) = [z \in DOMAIN old \cup {f} |-> IF z = f THEN x ELSE old[z]]
        BY DEF With
      <4>6. QED
        BY <4>2, <4>3
    <3> HIDE DEF package, call
    <3>5. QED
      BY <3>2, <3>3, <3>4
  <2>7. pc(f) \in {"export", "persist"} /\ (pc(f) = "persist" => call.todo = {f})
    BY <1>1
  <2>8. Goes(m, c(f))
    BY <1>4
  <2> HIDE DEF pc, package, now
  <2>9. /\ c(f) \in CallRecord /\ c(f).pc = pc(f) /\ c(f).id = call.id /\ c(f).todo = call.todo \ {f}
        /\ c(f).wanted = call.wanted /\ c(f).package = package(f) /\ c(f).opened = call.opened
        /\ c(f).seen = call.seen
    BY <2>1, <2>6, <2>7 DEF CallRecord
  <2> HIDE DEF c, call
  <2>10. PartHolds(c(f))
    <3>1. DOMAIN package(f) = DOMAIN call.wanted \ (call.todo \ {f}) /\ call.todo \subseteq DOMAIN call.wanted
      BY <2>1, <2>2, <2>6 DEF PartHolds
    <3>2. ASSUME NEW g \in DOMAIN package(f)
          PROVE  \E o \in call.seen : FileFrom(o, call.wanted, g, package(f)[g])
      <4>1. CASE g = f
        BY <2>2, <2>5, <2>6, <4>1
      <4>2. CASE g # f
        BY <2>2, <2>6, <4>2 DEF PartHolds
      <4>3. QED
        BY <4>1, <4>2
    <3>3. QED
      BY <2>9, <3>1, <3>2 DEF PartHolds
  <2>11. Holds(m, c(f), folders, origin')
    BY <1>1, <2>1, <2>2, <2>7, <2>9, <2>10 DEF Holds
  <2>12. QED
    BY <1>1, <2>8, <2>9, <2>11, CallFacts, GoesOn
<1>5. QED
  BY <1>2, <1>3, <1>4

LEMMA OriginChangesStep ==
  ASSUME ChannelInv, NEW m \in Member, m \in Publisher, OriginChanges(m)
  PROVE  ChannelInv'
<1>1. PICK o \in Origin : /\ origin' = [origin EXCEPT ![m] = o]
                          /\ Goes(m, [member[m].call EXCEPT !.torn = @ + 1, !.seen = @ \cup {o}])
  BY DEF OriginChanges
<1> DEFINE call == member[m].call
           c == [call EXCEPT !.torn = @ + 1, !.seen = @ \cup {o}]
<1>2. UNCHANGED folderVars /\ call.pc = "export"
  BY DEF OriginChanges, In
<1>3. call \in CallRecord /\ Holds(m, call, folders, origin)
  BY CallFacts
<1>4. call.torn + 1 \in Nat /\ call.seen \cup {o} \in SUBSET Origin
  BY <1>3 DEF CallRecord
<1>5. Goes(m, c)
  BY <1>1
<1> HIDE DEF call
<1>6. /\ c \in CallRecord /\ c.pc = call.pc /\ c.id = call.id /\ c.todo = call.todo
      /\ c.wanted = call.wanted /\ c.package = call.package /\ c.opened = call.opened
      /\ c.seen = call.seen \cup {o}
  BY <1>3, <1>4 DEF CallRecord
<1> HIDE DEF c
<1>7. PartHolds(c)
  BY <1>2, <1>3, <1>6 DEF Holds, PartHolds
<1>8. /\ origin' \in [Publisher -> Origin] /\ origin'[m] = o
      /\ \A n \in Publisher \ {m} : origin'[n] = origin[n]
  BY <1>1, CallFacts
<1>9. Holds(m, c, folders, origin')
  BY <1>2, <1>3, <1>6, <1>7, <1>8 DEF Holds
<1>10. QED
  BY <1>2, <1>5, <1>6, <1>8, <1>9, GoesOn

\* A package comes to those that are there.
LEMMA NewPackage ==
  ASSUME ChannelInv, NEW m \in Member, NEW id \in PackageId, id \notin DOMAIN AtPath.packages,
         folders' = [folders EXCEPT ![mounted].packages = With(@, id, member[m].call.package)]
  PROVE  /\ folders' \in [Folder -> FolderRecord] /\ DescriptorsStay
         /\ DOMAIN folders'[mounted].packages = DOMAIN AtPath.packages \cup {id}
         /\ folders'[mounted].packages[id] = member[m].call.package
         /\ \A p \in DOMAIN AtPath.packages : folders'[mounted].packages[p] = AtPath.packages[p]
         /\ \A d \in Folder \ {mounted} : folders'[d] = folders[d]
<1> DEFINE new == member[m].call.package
           old == AtPath.packages
           packages == [p \in DOMAIN old \cup {id} |-> IF p = id THEN new ELSE old[p]]
<1>1. new \in FilesTo(Bytes)
  BY CallFacts DEF CallRecord
<1>2. PICK S \in SUBSET PackageId : old \in [S -> FilesTo(Bytes)]
  BY CallFacts DEF FolderRecord
<1>3. With(old, id, new) = packages
  BY DEF With
<1> HIDE DEF new, old
<1>4. /\ packages \in [S \cup {id} -> FilesTo(Bytes)] /\ DOMAIN packages = S \cup {id}
      /\ packages[id] = new /\ \A p \in S \ {id} : packages[p] = old[p]
  BY <1>1, <1>2
<1> HIDE DEF packages
<1>5. packages \in UNION { [T -> FilesTo(Bytes)] : T \in SUBSET PackageId }
  BY <1>4
<1> DEFINE changed == [folders[mounted] EXCEPT !.packages = packages]
<1>6. changed \in FolderRecord /\ changed.packages = packages /\ changed.descriptor = folders[mounted].descriptor
  BY <1>5, CallFacts DEF FolderRecord, AtPath
<1>7. folders' = [folders EXCEPT ![mounted] = changed]
  BY <1>3 DEF new, old, AtPath
<1> HIDE DEF changed
<1>8. /\ folders' \in [Folder -> FolderRecord] /\ folders'[mounted] = changed
      /\ \A d \in Folder \ {mounted} : folders'[d] = folders[d]
  <2>1. folders \in [Folder -> FolderRecord] /\ mounted \in Folder
    BY CallFacts
  <2>2. QED
    BY <1>6, <1>7, <2>1
<1>9. DescriptorsStay
  BY <1>6, <1>8 DEF DescriptorsStay
<1>10. QED
  BY <1>2, <1>4, <1>6, <1>8, <1>9 DEF new, old

LEMMA PersistStep ==
  ASSUME ChannelInv, NEW m \in Member, Persist(m)
  PROVE  ChannelInv'
<1>1. Returns(m) /\ UNCHANGED <<mounted, origin>>
  BY DEF Persist
<1>2. CASE UNCHANGED folders
  BY <1>1, <1>2, ChannelReturns DEF folderVars
<1>3. ASSUME NEW id \in PackageId, id \notin DOMAIN AtPath.packages,
             folders' = [folders EXCEPT ![mounted].packages = With(@, id, member[m].call.package)]
      PROVE  ChannelInv'
  <2>1. folders' \in [Folder -> FolderRecord] /\ DescriptorsStay
    BY <1>3, NewPackage
  <2>2. Goes(m, Idle)
    BY <1>1 DEF Returns
  <2>3. QED
    BY <1>1, <2>1, <2>2, IdleIs, IdleHolds, GoesOnIn
<1>4. QED
  BY <1>2, <1>3 DEF Persist

LEMMA ChannelKept ==
  ASSUME ChannelInv, [ChannelNext]_channelVars
  PROVE  ChannelInv'
<1>1. CASE UNCHANGED channelVars
  BY <1>1 DEF channelVars, folderVars, ChannelInv, ChannelTypeOK, RegisteredChannelsExist
<1>2. CASE Remount
  <2>1. UNCHANGED <<folders, member, origin>> /\ mounted' \in Folder
    BY <1>2 DEF Remount
  <2>2. QED
    BY <2>1 DEF ChannelInv, ChannelTypeOK, RegisteredChannelsExist
<1>3. ASSUME NEW m \in Member, ChannelStep(m)
      PROVE  ChannelInv'
  <2>1. CASE CommandFails(m)
    BY <2>1, ChannelReturns DEF CommandFails
  <2>2. QED
    BY <1>3, <2>1, ConnectExistingStep, ConnectNewStep, OpenStep, DescribeStep, RegisterSteps DEF ChannelStep
<1>4. ASSUME NEW m \in Member, m \in Publisher, PublishStep(m)
      PROVE  ChannelInv'
  BY <1>4, BeginPublishStep, ExportFileStep, PersistStep, OriginChangesStep DEF PublishStep
<1>5. QED
  BY <1>1, <1>2, <1>3, <1>4 DEF ChannelNext

\* Whatever members do at the same time, whatever fails and whichever folder is mounted when, a command
\* of the channel holds the id of a descriptor that is there, and an export only what it has read.
THEOREM ChannelInvariant == Spec => []ChannelInv
<1>1. Init => ChannelInv
  BY ChannelInitially, ReadyInitially DEF Init
<1>2. ASSUME ChannelInv, [Next]_vars
      PROVE  ChannelInv'
  <2>1. [ChannelNext]_channelVars
    BY <1>2 DEF Next, vars
  <2>2. QED
    BY <1>2, <2>1, ChannelKept
<1>3. QED
  BY <1>1, <1>2, PTL DEF Spec

\* RegisteredChannelsExist: of members that find no descriptor at the same time one makes it, and what
\* any of them registers is a channel some folder describes (persist_noclobber behind connect).
THEOREM RegistrationsStayTrue == Spec => []RegisteredChannelsExist
<1>1. ChannelInv => RegisteredChannelsExist
  BY DEF ChannelInv
<1>2. QED
  BY <1>1, ChannelInvariant, PTL

\* PackagesAreWhole: a package appears with all that was selected, read since the export began, and no
\* step of any member changes or removes one, whoever writes the project and exchanges the folder.
THEOREM WholePackagesOnly == Spec => PackagesAreWhole
<1> DEFINE Kept(d) == \A id \in DOMAIN folders[d].packages :
             id \in DOMAIN folders'[d].packages /\ folders'[d].packages[id] = folders[d].packages[id]
           Came(d) == \A id \in DOMAIN folders'[d].packages \ DOMAIN folders[d].packages :
             \E m \in Publisher :
               /\ In(m, "persist") /\ IsWhole(m, folders'[d].packages[id])
               /\ d \in member[m].call.opened => folders[d].descriptor = member[m].call.id
           Good == \A d \in Folder :
             LET old == folders[d].packages
                 new == folders'[d].packages
             IN  /\ \A id \in DOMAIN old : id \in DOMAIN new /\ new[id] = old[id]
                 /\ \A id \in DOMAIN new \ DOMAIN old : \E m \in Publisher :
                      /\ In(m, "persist") /\ IsWhole(m, new[id])
                      /\ d \in member[m].call.opened => folders[d].descriptor = member[m].call.id
<1>1. ASSUME ChannelInv, [ChannelNext]_channelVars
      PROVE  \A d \in Folder : Kept(d) /\ Came(d)
  <2>1. CASE \A d \in Folder : folders'[d].packages = folders[d].packages
    BY <2>1
  <2>2. CASE UNCHANGED folders
    BY <2>2
  <2>3. ASSUME NEW m \in Member, ConnectNew(m) \/ Describe(m)
        PROVE  \A d \in Folder : folders'[d].packages = folders[d].packages
    <3>1. CASE ConnectNew(m)
      BY <1>1, <3>1, CallFacts DEF ConnectNew, FolderRecord
    <3>2. CASE Describe(m)
      <4>1. UNCHANGED folders \/ \E id : folders' = [folders EXCEPT ![mounted].descriptor = id]
        BY <3>2 DEF Describe
      <4>2. QED
        <5>1. folders \in [Folder -> FolderRecord] /\ mounted \in Folder
          BY <1>1, <2>3, CallFacts
        <5>2. QED
          BY <4>1, <5>1 DEF FolderRecord
    <3>3. QED
      BY <2>3, <3>1, <3>2
  <2>4. ASSUME NEW m \in Member, m \in Publisher, Persist(m)
        PROVE  \A d \in Folder : Kept(d) /\ Came(d)
    <3>1. CASE UNCHANGED folders
      BY <3>1
    <3>2. ASSUME NEW id \in PackageId, id \notin DOMAIN AtPath.packages,
                 folders' = [folders EXCEPT ![mounted].packages = With(@, id, member[m].call.package)]
          PROVE  \A d \in Folder : Kept(d) /\ Came(d)
      <4>1. /\ DOMAIN folders'[mounted].packages = DOMAIN AtPath.packages \cup {id}
            /\ folders'[mounted].packages[id] = member[m].call.package
            /\ \A p \in DOMAIN AtPath.packages : folders'[mounted].packages[p] = AtPath.packages[p]
            /\ \A d \in Folder \ {mounted} : folders'[d] = folders[d]
        BY <1>1, <3>2, NewPackage
      <4>2. In(m, "persist") /\ Holds(m, member[m].call, folders, origin)
        BY <1>1, <2>4, CallFacts DEF Persist
      <4>3. /\ PartHolds(member[m].call) /\ member[m].call.todo = {}
            /\ \A d \in member[m].call.opened : folders[d].descriptor = member[m].call.id
        BY <4>2 DEF Holds, In
      <4>4. IsWhole(m, member[m].call.package)
        BY <4>3 DEF PartHolds, IsWhole, FileFrom
      <4>5. Kept(mounted) /\ Came(mounted)
        BY <2>4, <4>1, <4>2, <4>3, <4>4 DEF AtPath
      <4>6. QED
        BY <4>1, <4>5
    <3>3. QED
      BY <2>4, <3>1, <3>2 DEF Persist
  <2>5. ASSUME NEW m \in Member, ChannelStep(m) \/ (m \in Publisher /\ PublishStep(m))
        PROVE  \A d \in Folder : Kept(d) /\ Came(d)
    <3>1. CASE ConnectNew(m) \/ Describe(m)
      <4>1. \A d \in Folder : folders'[d].packages = folders[d].packages
        BY <2>3, <3>1
      <4>2. QED
        BY <4>1
    <3>2. CASE m \in Publisher /\ Persist(m)
      BY <2>4, <3>2
    <3>3. CASE UNCHANGED folders
      BY <3>3
    <3>4. QED
      BY <2>5, <3>1, <3>2, <3>3 DEF ChannelStep, PublishStep, ConnectExisting, Open, Register, Unregister,
         CommandFails, BeginPublish, ExportFile, OriginChanges, folderVars
  <2>6. CASE Remount \/ UNCHANGED channelVars
    BY <2>2, <2>6 DEF Remount, channelVars, folderVars
  <2>7. QED
    BY <1>1, <2>5, <2>6 DEF ChannelNext
<1>2. ASSUME ChannelInv, [Next]_vars
      PROVE  [Good]_channelVars
  <2>1. [ChannelNext]_channelVars
    BY <1>2 DEF Next, vars
  <2>2. QED
    BY <1>1, <1>2, <2>1
<1>3. QED
  BY <1>2, ChannelInvariant, PTL DEF Spec, PackagesAreWhole

----------------------------------------------------------------------------
(* The import: types. *)

Entry == [target : File, expected : Content]

PlanRecord ==
  [package : FilesTo(Bytes), links : SUBSET Link, todo : SUBSET File, entries : FilesTo(Entry),
   stored : BOOLEAN, writes : Nat]

PreparedRecord == [target : File, new : BOOLEAN, original : Content]

ApplyRecord ==
  [pc : {"rest", "build", "links", "verify", "stage", "commit", "undo", "done"},
   plan : PlanRecord \cup {NoPlan}, chosen : SUBSET (File \X Key), accepted : SUBSET (File \X Key),
   changes : FilesTo(Bytes), todo : SUBSET File, prepared : Seq(PreparedRecord), at : Nat,
   result : {"none", "ok", "invalid", "changed", "io", "incomplete", "crashed"},
   before : FilesTo(Content), disturbed : BOOLEAN]

ImportTypeOK ==
  /\ disk \in [File -> Content]
  /\ links \in SUBSET Link
  /\ plan \in PlanRecord \cup {NoPlan}
  /\ apply \in ApplyRecord

----------------------------------------------------------------------------
(* The import: the invariant. *)

Injective(p) == \A s, t \in Sources(p) : Target(p, s) = Target(p, t) => s = t

\* A plan that is stored has an entry for every file, and no two for one target.
StoredPlan(p) == p \in PlanRecord /\ p.stored /\ DOMAIN p.entries = Sources(p) /\ Injective(p)

\* One that is being made has them for the files it has come past.
GrowingPlan(p) ==
  /\ p \in PlanRecord /\ ~p.stored
  /\ p.todo \subseteq Sources(p) /\ DOMAIN p.entries = Sources(p) \ p.todo
  /\ \A s \in DOMAIN p.entries : Target(p, s) = s

PlanHolds == plan # NoPlan => (StoredPlan(plan) \/ GrowingPlan(plan)) /\ apply.pc = "rest"

Working == apply.pc \notin {"rest", "done"}

\* What an apply has come past, by its phase: sources built, verified, staged; renames made.
Past == AllSources \ apply.todo
Built == IF apply.pc = "build" THEN Past ELSE AllSources
Verified == IF apply.pc = "verify" THEN Past
            ELSE IF apply.pc \in {"build", "links"} THEN {} ELSE AllSources
Staged == IF apply.pc = "stage" THEN Past
          ELSE IF apply.pc \in {"commit", "undo"} THEN AllSources ELSE {}
Written == IF apply.pc = "commit" THEN 1..apply.at - 1
           ELSE IF apply.pc = "undo" THEN 1..apply.at ELSE {}

TargetsOf(S) == { Target(apply.plan, src) : src \in S }
Writes(src) == Changes(apply.plan, src, apply.accepted)

PlanTaken ==
  /\ StoredPlan(apply.plan)
  /\ apply.chosen \subseteq Conflicts(apply.plan)
  /\ apply.accepted = Expanded(apply.plan, apply.chosen)

ChangesBuilt ==
  /\ apply.todo \subseteq AllSources /\ DOMAIN apply.changes = TargetsOf(Built)
  /\ apply.pc = "links" => apply.todo = AllSources

\* Exactly the targets with changes are staged, each once.
PreparedFor(i, src) ==
  /\ apply.prepared[i].target = Target(apply.plan, src)
  /\ apply.prepared[i].new => Expected(apply.plan, src) = NoFile
  /\ ~apply.prepared[i].new => Expected(apply.plan, src) # NoFile

PreparedOnce ==
  /\ \A i \in DOMAIN apply.prepared : \E src \in Staged : Writes(src) /\ PreparedFor(i, src)
  /\ \A src \in Staged : Writes(src) =>
       \E i \in DOMAIN apply.prepared : apply.prepared[i].target = Target(apply.plan, src)
  /\ \A i, j \in DOMAIN apply.prepared :
       apply.prepared[i].target = apply.prepared[j].target => i = j
  /\ apply.pc \in {"commit", "undo"} => apply.at \in 1..Len(apply.prepared)

\* What the apply is to make of file f.
Outcome(f) == IF f \in DOMAIN apply.changes THEN apply.changes[f] ELSE apply.before[f]

BuiltFromBefore ==
  \A src \in Built : LET f == Target(apply.plan, src) IN
    /\ apply.changes[f] = Merged(apply.plan, src, apply.before[f], apply.accepted)
    /\ apply.changes[f] # NoFile

VerifiedBefore ==
  \A src \in Verified : apply.before[Target(apply.plan, src)] = Expected(apply.plan, src)

LinksChecked ==
  apply.pc \notin {"build", "links"} =>
    \A link \in apply.plan.links : \E v \in Value : \A f \in link.members :
      link.key \in Assigned(Outcome(f)) /\ Outcome(f)[link.key] = v

\* The originals are what was there, and what is there now is the outcome of the renames made.
DiskFollows ==
  /\ \A i \in DOMAIN apply.prepared : apply.prepared[i].original = apply.before[apply.prepared[i].target]
  /\ \A f \in File :
       disk[f] = IF \E i \in Written : apply.prepared[i].target = f THEN apply.changes[f]
                                                                    ELSE apply.before[f]

Undisturbed ==
  /\ apply.before \in [File -> Content]
  /\ BuiltFromBefore /\ VerifiedBefore /\ LinksChecked /\ DiskFollows

ImportInv ==
  /\ ImportTypeOK
  /\ PlanHolds
  /\ Working => PlanTaken /\ ChangesBuilt /\ PreparedOnce
  /\ Working /\ ~apply.disturbed => Undisturbed

----------------------------------------------------------------------------
(* What the operators on plans return. *)

LEMMA EntryFacts ==
  ASSUME NEW p \in PlanRecord, NEW src \in DOMAIN p.entries, src \in Sources(p)
  PROVE  /\ src \in File /\ Target(p, src) \in File /\ Expected(p, src) \in Content
         /\ p.package[src] \in Bytes
<1>1. p.entries \in FilesTo(Entry) /\ p.package \in FilesTo(Bytes)
  BY DEF PlanRecord
<1>2. p.entries[src] \in Entry /\ p.package[src] \in Bytes /\ src \in File
  BY <1>1 DEF FilesTo, Sources
<1>3. QED
  BY <1>2 DEF Entry, Target, Expected

LEMMA OccurrencesAre ==
  ASSUME NEW p
  PROVE  /\ Occurrences(p) \subseteq File \X Key /\ Conflicts(p) \subseteq Occurrences(p)
         /\ \A src, k : <<src, k>> \in Occurrences(p) <=>
              src \in File /\ k \in Key /\ src \in Sources(p) /\ k \in Assigned(p.package[src])
         /\ \A chosen : chosen \subseteq Conflicts(p) =>
              /\ Expanded(p, chosen) \subseteq File \X Key
              /\ Expanded(p, chosen) \subseteq Conflicts(p)
BY DEF Occurrences, Conflicts, Expanded

LEMMA MergedIs ==
  ASSUME NEW p \in PlanRecord, NEW src \in DOMAIN p.entries, src \in Sources(p),
         NEW now \in Content, NEW accepted, Merged(p, src, now, accepted) # NoFile
  PROVE  Merged(p, src, now, accepted) \in Bytes
<1>1. p.package[src] \in Bytes
  BY EntryFacts
<1>2. CASE Expected(p, src) = NoFile
  BY <1>1, <1>2 DEF Merged
<1>3. CASE Expected(p, src) # NoFile
  <2>1. now # NoFile
    BY <1>3 DEF Merged
  <2>2. now \in Bytes
    BY <2>1 DEF Content
  <2>3. \A k \in Key : now[k] \in Value \cup {Absent} /\ p.package[src][k] \in Value \cup {Absent}
    BY <1>1, <2>2 DEF Bytes
  <2>4. Merged(p, src, now, accepted) =
          [k \in Key |->
             IF <<src, k>> \notin Occurrences(p) THEN now[k]
             ELSE IF IsNew(p, <<src, k>>)
               THEN IF k \in Assigned(now) THEN Absent ELSE p.package[src][k]
             ELSE IF <<src, k>> \in accepted THEN p.package[src][k] ELSE now[k]]
    BY <1>3 DEF Merged
  <2>5. QED
    BY <2>3, <2>4 DEF Bytes
<1>4. QED
  BY <1>2, <1>3

\* What is merged into a file the plan has seen as it is.
LEMMA MergedAsSeen ==
  ASSUME NEW p \in PlanRecord, NEW src \in DOMAIN p.entries, src \in Sources(p),
         NEW accepted, Merged(p, src, Expected(p, src), accepted) # NoFile, Expected(p, src) # NoFile
  PROVE  /\ Expected(p, src) \in Bytes
         /\ Merged(p, src, Expected(p, src), accepted) =
              [k \in Key |->
                 IF <<src, k>> \in Occurrences(p) /\ (IsNew(p, <<src, k>>) \/ <<src, k>> \in accepted)
                   THEN p.package[src][k] ELSE Expected(p, src)[k]]
<1> DEFINE now == Expected(p, src)
<1>1. now \in Bytes
  BY EntryFacts DEF Content
<1>2. \A k : IsNew(p, <<src, k>>) => k \notin Assigned(now)
  BY DEF IsNew
<1>3. Merged(p, src, now, accepted) =
        [k \in Key |->
           IF <<src, k>> \notin Occurrences(p) THEN now[k]
           ELSE IF IsNew(p, <<src, k>>)
             THEN IF k \in Assigned(now) THEN Absent ELSE p.package[src][k]
           ELSE IF <<src, k>> \in accepted THEN p.package[src][k] ELSE now[k]]
  BY DEF Merged
<1> HIDE DEF now
<1>4. QED
  BY <1>1, <1>2, <1>3 DEF now

LEMMA MergedThere ==
  ASSUME NEW p \in PlanRecord, NEW src \in DOMAIN p.entries, src \in Sources(p), NEW accepted,
         Merged(p, src, Expected(p, src), accepted) # NoFile, Expected(p, src) # NoFile, NEW k \in Key
  PROVE  Merged(p, src, Expected(p, src), accepted)[k] =
           IF <<src, k>> \in Occurrences(p) /\ (IsNew(p, <<src, k>>) \/ <<src, k>> \in accepted)
             THEN p.package[src][k] ELSE Expected(p, src)[k]
<1>1. Merged(p, src, Expected(p, src), accepted) =
        [key \in Key |->
           IF <<src, key>> \in Occurrences(p) /\ (IsNew(p, <<src, key>>) \/ <<src, key>> \in accepted)
             THEN p.package[src][key] ELSE Expected(p, src)[key]]
  BY MergedAsSeen
<1>2. QED
  BY <1>1

\* A file that is passed over would not have been changed.
LEMMA NotWrittenIsSame ==
  ASSUME NEW p \in PlanRecord, NEW src \in DOMAIN p.entries, src \in Sources(p),
         NEW accepted, Merged(p, src, Expected(p, src), accepted) # NoFile, ~Changes(p, src, accepted)
  PROVE  Merged(p, src, Expected(p, src), accepted) = Expected(p, src)
<1>1. Expected(p, src) # NoFile
  BY DEF Changes
<1>2. \A k : <<src, k>> \in Occurrences(p) => ~IsNew(p, <<src, k>>) /\ <<src, k>> \notin accepted
  BY DEF Changes
<1>3. Expected(p, src) \in Bytes
  BY <1>1, MergedAsSeen
<1>4. Merged(p, src, Expected(p, src), accepted) =
        [k \in Key |->
           IF <<src, k>> \in Occurrences(p) /\ (IsNew(p, <<src, k>>) \/ <<src, k>> \in accepted)
             THEN p.package[src][k] ELSE Expected(p, src)[k]]
  BY <1>1, MergedAsSeen
<1>5. \A k \in Key : ~(<<src, k>> \in Occurrences(p) /\ (IsNew(p, <<src, k>>) \/ <<src, k>> \in accepted))
  BY <1>2
<1>6. Merged(p, src, Expected(p, src), accepted) = [k \in Key |-> Expected(p, src)[k]]
  BY <1>4, <1>5, Zenon
<1>7. QED
  BY <1>3, <1>6 DEF Bytes

\* What depends on package, links and entries alone.
LEMMA SamePlan ==
  ASSUME NEW p, NEW q, p.package = q.package, p.links = q.links, p.entries = q.entries
  PROVE  /\ Sources(p) = Sources(q) /\ Occurrences(p) = Occurrences(q) /\ Conflicts(p) = Conflicts(q)
         /\ \A src : Target(p, src) = Target(q, src) /\ Expected(p, src) = Expected(q, src)
         /\ \A chosen : Expanded(p, chosen) = Expanded(q, chosen)
         /\ \A src, accepted : Changes(p, src, accepted) <=> Changes(q, src, accepted)
<1>1. /\ Sources(p) = Sources(q) /\ Occurrences(p) = Occurrences(q)
      /\ \A src : Target(p, src) = Target(q, src) /\ Expected(p, src) = Expected(q, src)
      /\ \A o : Incoming(p, o) = Incoming(q, o)
  BY DEF Sources, Occurrences, Target, Expected, Incoming
<1>2. \A o : (IsNew(p, o) <=> IsNew(q, o)) /\ (IsConflict(p, o) <=> IsConflict(q, o))
  BY <1>1 DEF IsNew, IsConflict
<1>3. Conflicts(p) = Conflicts(q) /\ \A o : LinksOf(p, o) = LinksOf(q, o)
  BY <1>1, <1>2 DEF Conflicts, LinksOf
<1>4. \A chosen : Expanded(p, chosen) = Expanded(q, chosen)
  BY <1>3 DEF Expanded
<1>5. \A src, accepted : Changes(p, src, accepted) <=> Changes(q, src, accepted)
  BY <1>1, <1>2 DEF Changes
<1>6. QED
  BY <1>1, <1>3, <1>4, <1>5

----------------------------------------------------------------------------
(* The steps of plans, and the ends of applies. *)

LEMMA RestingIs ==
  /\ Resting \in ApplyRecord /\ Resting.pc = "rest"
  /\ Resting.prepared = << >> /\ Resting.changes = Nothing /\ ~Resting.disturbed
<1>1. Nothing \in FilesTo(Bytes) /\ Nothing \in FilesTo(Content) /\ << >> \in Seq(PreparedRecord)
  BY NothingIs
<1>2. QED
  BY <1>1 DEF Resting, ApplyRecord

\* Nothing is required of an apply that has ended, but that there is no plan beside it.
LEMMA AtRest ==
  ASSUME ImportTypeOK', apply'.pc \in {"rest", "done"}, PlanHolds'
  PROVE  ImportInv'
BY DEF ImportInv, Working

Results == {"none", "ok", "invalid", "changed", "io", "incomplete", "crashed"}

LEMMA EndsStep ==
  ASSUME ImportInv, Working, NEW result \in Results, Ends(result),
         disk' \in [File -> Content], UNCHANGED <<links, plan>>
  PROVE  ImportInv'
<1>1. apply' \in ApplyRecord /\ apply'.pc = "done"
  BY RestingIs DEF Ends, ApplyRecord, Results
<1>2. plan' = NoPlan
  BY DEF ImportInv, PlanHolds, Working
<1>3. ImportTypeOK'
  BY <1>1 DEF ImportTypeOK, ImportInv
<1>4. PlanHolds'
  BY <1>2 DEF PlanHolds
<1>5. QED
  BY <1>1, <1>3, <1>4, AtRest

LEMMA ReportStep ==
  ASSUME ImportInv, Report
  PROVE  ImportInv'
<1>1. apply' \in ApplyRecord /\ apply'.pc = "rest"
  BY RestingIs DEF Report
<1>2. UNCHANGED <<disk, links, plan>> /\ apply.pc = "done"
  BY DEF Report
<1>3. ImportTypeOK'
  BY <1>1, <1>2 DEF ImportTypeOK, ImportInv
<1>4. PlanHolds'
  BY <1>2 DEF PlanHolds, ImportInv
<1>5. QED
  BY <1>1, <1>3, <1>4, AtRest

\* The plan is another one now, or gone.
LEMMA PlanStep ==
  ASSUME ImportInv, apply.pc = "rest", UNCHANGED apply, disk' \in [File -> Content],
         links' \in SUBSET Link, NEW q, plan' = q, q = NoPlan \/ StoredPlan(q) \/ GrowingPlan(q)
  PROVE  ImportInv'
<1>1. ImportTypeOK'
  BY DEF ImportTypeOK, ImportInv, StoredPlan, GrowingPlan
<1>2. PlanHolds'
  BY DEF PlanHolds, StoredPlan, GrowingPlan, Injective, Sources, Target
<1>3. QED
  BY <1>1, <1>2, AtRest

LEMMA SamePlanStep ==
  ASSUME ImportInv, apply.pc = "rest", UNCHANGED <<disk, links, apply>>, NEW q, plan' = q,
         q = NoPlan \/ StoredPlan(q) \/ GrowingPlan(q)
  PROVE  ImportInv'
<1>1. disk' \in [File -> Content] /\ links' \in SUBSET Link
  BY DEF ImportInv, ImportTypeOK
<1>2. QED
  BY <1>1, PlanStep

LEMMA BeginPlanStep ==
  ASSUME ImportInv, NEW package \in FilesTo(Bytes), BeginPlan(package)
  PROVE  ImportInv'
<1> DEFINE q == [package |-> package, links |-> links, todo |-> DOMAIN package,
                 entries |-> Nothing, stored |-> FALSE, writes |-> 0]
<1>1. links \in SUBSET Link /\ DOMAIN package \in SUBSET File /\ Nothing \in FilesTo(Entry)
  BY NothingIs DEF ImportInv, ImportTypeOK, FilesTo
<1>2. q \in PlanRecord
  BY <1>1 DEF PlanRecord
<1>3. GrowingPlan(q)
  BY <1>2 DEF GrowingPlan, Sources, Nothing
<1>4. plan' = q /\ apply.pc = "rest" /\ UNCHANGED <<disk, links, apply>>
  BY DEF BeginPlan
<1> HIDE DEF q
<1>5. QED
  BY <1>3, <1>4, SamePlanStep

\* What the invariant says of a plan.
LEMMA PlanFacts ==
  ASSUME ImportInv, plan # NoPlan
  PROVE  /\ plan \in PlanRecord /\ apply.pc = "rest" /\ disk \in [File -> Content]
         /\ plan.stored => StoredPlan(plan)
         /\ ~plan.stored => GrowingPlan(plan)
BY DEF ImportInv, ImportTypeOK, PlanHolds, StoredPlan, GrowingPlan

LEMMA BuildEntryStep ==
  ASSUME ImportInv, BuildEntry
  PROVE  ImportInv'
<1>1. PICK f \in Earliest(plan.todo) :
        plan' = [plan EXCEPT !.todo = @ \ {f},
                             !.entries = With(@, f, [target |-> f, expected |-> disk[f]])]
  BY DEF BuildEntry
<1> DEFINE entry == [target |-> f, expected |-> disk[f]]
           entries == With(plan.entries, f, entry)
           q == [plan EXCEPT !.todo = @ \ {f}, !.entries = entries]
<1>2. GrowingPlan(plan) /\ apply.pc = "rest" /\ UNCHANGED <<disk, links, apply>>
  BY PlanFacts DEF BuildEntry, Planning
<1>3. f \in plan.todo /\ f \in File /\ disk[f] \in Content
  BY <1>2 DEF Earliest, GrowingPlan, PlanRecord, ImportInv, ImportTypeOK
<1>4. entry \in Entry /\ entry.target = f
  BY <1>3 DEF Entry
<1> HIDE DEF entry
<1>4a. plan.entries \in FilesTo(Entry)
  BY <1>2 DEF GrowingPlan, PlanRecord
<1>5. /\ entries \in FilesTo(Entry) /\ DOMAIN entries = DOMAIN plan.entries \cup {f}
      /\ entries[f] = entry /\ \A g \in DOMAIN plan.entries \ {f} : entries[g] = plan.entries[g]
  <2>1. f \in File /\ entry \in Entry
    BY <1>3, <1>4
  <2>2. ASSUME NEW map \in FilesTo(Entry)
        PROVE  /\ With(map, f, entry) \in FilesTo(Entry)
               /\ DOMAIN With(map, f, entry) = DOMAIN map \cup {f}
               /\ With(map, f, entry)[f] = entry
               /\ \A g \in DOMAIN map \ {f} : With(map, f, entry)[g] = map[g]
    BY <2>1, OneMore
  <2>3. QED
    BY <2>2, <1>4a
<1> HIDE DEF entries
<1>6. /\ q \in PlanRecord /\ ~q.stored /\ q.package = plan.package /\ q.todo = plan.todo \ {f}
      /\ q.entries = entries
  BY <1>2, <1>5 DEF GrowingPlan, PlanRecord
<1>7. plan' = q
  BY <1>1 DEF entries, entry
<1> HIDE DEF q
<1>8. GrowingPlan(q)
  BY <1>2, <1>3, <1>4, <1>5, <1>6 DEF GrowingPlan, Sources, Target
<1>9. QED
  BY <1>2, <1>7, <1>8, SamePlanStep

LEMMA StorePlanStep ==
  ASSUME ImportInv, StorePlan
  PROVE  ImportInv'
<1> DEFINE q == [plan EXCEPT !.stored = TRUE]
<1>1. GrowingPlan(plan) /\ apply.pc = "rest" /\ plan.todo = {} /\ UNCHANGED <<disk, links, apply>>
  BY PlanFacts DEF StorePlan, Planning
<1>2. q \in PlanRecord /\ q.stored /\ q.package = plan.package /\ q.entries = plan.entries
  BY <1>1 DEF GrowingPlan, PlanRecord
<1>3. plan' = q \/ plan' = NoPlan
  BY DEF StorePlan
<1> HIDE DEF q
<1>4. StoredPlan(q)
  BY <1>1, <1>2 DEF GrowingPlan, StoredPlan, Injective, Sources, Target
<1>5. QED
  BY <1>1, <1>3, <1>4, SamePlanStep

LEMMA DropPlanStep ==
  ASSUME ImportInv, DropPlan
  PROVE  ImportInv'
BY SamePlanStep DEF DropPlan

LEMMA RemapStep ==
  ASSUME ImportInv, NEW src \in File, NEW target \in File, Remap(src, target)
  PROVE  ImportInv'
<1> DEFINE entry == [target |-> target, expected |-> disk[target]]
           entries == [plan.entries EXCEPT ![src] = entry]
           q == [plan EXCEPT !.entries = entries]
<1>1. StoredPlan(plan) /\ apply.pc = "rest" /\ UNCHANGED <<disk, links, apply>> /\ disk[target] \in Content
  BY PlanFacts DEF Remap, Stored
<1>2. /\ src \in Sources(plan)
      /\ \A other \in Sources(plan) \ {src} : Target(plan, other) # target
  BY DEF Remap
<1>3. entry \in Entry /\ entry.target = target
  BY <1>1 DEF Entry
<1>4. PICK S \in SUBSET File : plan.entries \in [S -> Entry]
  BY <1>1 DEF StoredPlan, PlanRecord, FilesTo
<1> HIDE DEF entry
<1>5. /\ entries \in [S -> Entry] /\ DOMAIN entries = DOMAIN plan.entries
      /\ entries[src] = entry /\ \A g \in DOMAIN plan.entries \ {src} : entries[g] = plan.entries[g]
  BY <1>1, <1>2, <1>3, <1>4 DEF StoredPlan
<1>6. entries \in FilesTo(Entry)
  BY <1>5 DEF FilesTo
<1>7. plan' = q
  BY <1>1 DEF Remap, Remapped, entry, StoredPlan, PlanRecord
<1> HIDE DEF entries
<1>8. q \in PlanRecord /\ q.stored /\ q.package = plan.package /\ q.entries = entries
  BY <1>1, <1>6 DEF StoredPlan, PlanRecord
<1> HIDE DEF q
<1>9. StoredPlan(q)
  BY <1>1, <1>2, <1>3, <1>5, <1>8 DEF StoredPlan, Injective, Sources, Target
<1>10. QED
  BY <1>1, <1>7, <1>9, SamePlanStep

----------------------------------------------------------------------------
(* The steps of an apply. *)

\* What the invariant says of an apply under way.
LEMMA WorkFacts ==
  ASSUME ImportInv, Working
  PROVE  /\ apply \in ApplyRecord /\ disk \in [File -> Content] /\ links \in SUBSET Link /\ plan = NoPlan
         /\ PlanTaken /\ ChangesBuilt /\ PreparedOnce
         /\ ~apply.disturbed => Undisturbed
         /\ \A src \in AllSources : /\ src \in DOMAIN apply.plan.entries /\ src \in File
                                   /\ Target(apply.plan, src) \in File
                                   /\ Expected(apply.plan, src) \in Content
                                   /\ apply.plan.package[src] \in Bytes
<1>1. apply.plan \in PlanRecord /\ DOMAIN apply.plan.entries = Sources(apply.plan)
  BY DEF ImportInv, PlanTaken, StoredPlan
<1>2. \A src \in AllSources : src \in DOMAIN apply.plan.entries
  BY <1>1 DEF AllSources
<1>3. QED
  BY <1>1, <1>2, EntryFacts DEF ImportInv, ImportTypeOK, PlanHolds, Working, AllSources

\* An apply goes on with the same plan and choices.
LEMMA WorksOn ==
  ASSUME ImportInv, Working, UNCHANGED <<links, plan>>, disk' \in [File -> Content],
         apply' \in ApplyRecord, apply'.pc \notin {"rest", "done"},
         apply'.plan = apply.plan, apply'.chosen = apply.chosen, apply'.accepted = apply.accepted,
         ChangesBuilt', PreparedOnce', ~apply'.disturbed => Undisturbed'
  PROVE  ImportInv'
<1>1. ImportTypeOK'
  BY WorkFacts DEF ImportTypeOK
<1>2. PlanHolds'
  BY WorkFacts DEF PlanHolds
<1>3. PlanTaken'
  BY WorkFacts DEF PlanTaken
<1>4. QED
  BY <1>1, <1>2, <1>3 DEF ImportInv, Working

LEMMA BeginApplyStep ==
  ASSUME ImportInv, NEW chosen \in SUBSET Occurrences(plan), Stored, BeginApply(chosen)
  PROVE  ImportInv'
<1>1. /\ StoredPlan(plan) /\ plan \in PlanRecord /\ apply.pc = "rest" /\ disk \in [File -> Content]
      /\ plan' = NoPlan /\ UNCHANGED <<disk, links>> /\ links \in SUBSET Link
  BY PlanFacts DEF Stored, BeginApply, ImportInv, ImportTypeOK
<1>2. CASE ~(chosen \subseteq Conflicts(plan))
  <2>0. Ends("invalid")
    BY <1>2 DEF BeginApply
  <2>1. apply' \in ApplyRecord /\ apply'.pc = "done"
    BY <2>0, RestingIs DEF Ends, ApplyRecord
  <2>2. ImportTypeOK' /\ PlanHolds'
    BY <1>1, <2>1 DEF ImportTypeOK, PlanHolds
  <2>3. QED
    BY <2>1, <2>2, AtRest
<1>3. CASE chosen \subseteq Conflicts(plan)
  <2> DEFINE a == [Resting EXCEPT !.pc = "build", !.plan = plan, !.chosen = chosen,
                     !.accepted = Expanded(plan, chosen), !.todo = Sources(plan), !.before = disk]
  <2>1. apply' = a
    BY <1>3 DEF BeginApply
  <2>2. chosen \in SUBSET (File \X Key) /\ Expanded(plan, chosen) \in SUBSET (File \X Key)
    BY <1>3, OccurrencesAre
  <2>3. Sources(plan) \in SUBSET File /\ disk \in FilesTo(Content)
    BY <1>1 DEF Sources, PlanRecord, FilesTo
  <2>4. /\ a \in ApplyRecord /\ a.pc = "build" /\ a.plan = plan /\ a.chosen = chosen
        /\ a.accepted = Expanded(plan, chosen) /\ a.todo = Sources(plan) /\ a.before = disk
        /\ a.changes = Nothing /\ a.prepared = << >> /\ ~a.disturbed
    BY <1>1, <2>2, <2>3, RestingIs DEF ApplyRecord
  <2> HIDE DEF a
  <2>5. ImportTypeOK' /\ PlanHolds'
    BY <1>1, <2>1, <2>4 DEF ImportTypeOK, PlanHolds
  <2>6. PlanTaken'
    BY <1>1, <1>3, <2>1, <2>4 DEF PlanTaken
  <2>7. Built' = {} /\ Verified' = {} /\ Staged' = {} /\ Written' = {}
    BY <2>1, <2>4 DEF Built, Verified, Staged, Written, Past, AllSources
  <2>8. DOMAIN apply'.changes = {} /\ DOMAIN apply'.prepared = {}
    BY <2>1, <2>4 DEF Nothing
  <2>9. ChangesBuilt'
    BY <2>1, <2>4, <2>7, <2>8 DEF ChangesBuilt, AllSources, TargetsOf
  <2>10. PreparedOnce'
    BY <2>1, <2>4, <2>7, <2>8 DEF PreparedOnce
  <2>11. Undisturbed'
    BY <1>1, <2>1, <2>4, <2>7, <2>8 DEF Undisturbed, BuiltFromBefore, VerifiedBefore, LinksChecked, DiskFollows
  <2>12. QED
    BY <2>5, <2>6, <2>9, <2>10, <2>11 DEF ImportInv
<1>4. QED
  BY <1>2, <1>3

LEMMA BuildStep ==
  ASSUME ImportInv, Build
  PROVE  ImportInv'
<1> DEFINE f(src) == Target(apply.plan, src)
           content(src) == Merged(apply.plan, src, disk[f(src)], apply.accepted)
           todo(src) == IF apply.todo = {src} THEN AllSources ELSE apply.todo \ {src}
           pc(src) == IF apply.todo = {src} THEN "links" ELSE apply.pc
           a(src) == [apply EXCEPT !.changes = With(@, f(src), content(src)), !.todo = todo(src), !.pc = pc(src)]
<1>1. PICK src \in Here : IF content(src) = NoFile THEN Ends("invalid") ELSE apply' = a(src)
  BY DEF Build
<1>2. apply.pc = "build" /\ UNCHANGED <<disk, links, plan>> /\ Working
  BY DEF Build, Working
<1>3. src \in apply.todo /\ src \in AllSources /\ f(src) \in File /\ apply.todo \subseteq AllSources
  BY <1>2, WorkFacts DEF Here, Earliest, ChangesBuilt
<1>4. CASE content(src) = NoFile
  BY <1>1, <1>2, <1>4, WorkFacts, EndsStep DEF Results
<1>5. CASE content(src) # NoFile
  <2>1. content(src) \in Bytes
    <3>1. disk[f(src)] \in Content /\ apply.plan \in PlanRecord /\ src \in DOMAIN apply.plan.entries
          /\ src \in Sources(apply.plan)
      BY <1>2, <1>3, WorkFacts DEF PlanTaken, StoredPlan, AllSources
    <3>2. QED
      BY <1>5, <3>1, MergedIs
  <2> DEFINE changes == With(apply.changes, f(src), content(src))
  <2>2. /\ changes \in FilesTo(Bytes) /\ DOMAIN changes = DOMAIN apply.changes \cup {f(src)}
        /\ changes[f(src)] = content(src)
        /\ \A g \in DOMAIN apply.changes \ {f(src)} : changes[g] = apply.changes[g]
    <3>1. ASSUME NEW map \in FilesTo(Bytes), NEW g \in File, NEW x \in Bytes
          PROVE  /\ With(map, g, x) \in FilesTo(Bytes)
                 /\ DOMAIN With(map, g, x) = DOMAIN map \cup {g}
                 /\ With(map, g, x)[g] = x
                 /\ \A h \in DOMAIN map \ {g} : With(map, g, x)[h] = map[h]
      BY OneMore
    <3>2. apply.changes \in FilesTo(Bytes)
      BY <1>2, WorkFacts DEF ApplyRecord
    <3> HIDE DEF f, content
    <3>3. QED
      BY <1>3, <2>1, <3>1, <3>2
  <2>3. todo(src) \in SUBSET File /\ todo(src) \subseteq AllSources /\ pc(src) \in {"build", "links"}
        /\ (pc(src) = "links" => todo(src) = AllSources /\ apply.todo = {src})
        /\ (pc(src) = "build" => todo(src) = apply.todo \ {src})
    BY <1>2, <1>3, WorkFacts
  <2>4. apply' = [apply EXCEPT !.changes = changes, !.todo = todo(src), !.pc = pc(src)]
    BY <1>1, <1>5
  <2> HIDE DEF changes, todo, pc, content
  <2>5. /\ apply' \in ApplyRecord /\ apply'.changes = changes /\ apply'.todo = todo(src) /\ apply'.pc = pc(src)
        /\ apply'.plan = apply.plan /\ apply'.chosen = apply.chosen /\ apply'.accepted = apply.accepted
        /\ apply'.prepared = apply.prepared /\ apply'.before = apply.before
        /\ apply'.disturbed = apply.disturbed
    BY <1>2, <2>2, <2>3, <2>4, WorkFacts DEF ApplyRecord
  <2>6. /\ AllSources' = AllSources /\ Built' = Built \cup {src} /\ src \notin Built /\ Built \subseteq AllSources
        /\ Verified' = {} /\ Staged' = {} /\ Staged = {} /\ Written' = {} /\ Written = {}
    BY <1>2, <1>3, <2>3, <2>5 DEF AllSources, Built, Past, Verified, Staged, Written
  <2>7. ChangesBuilt'
    BY <1>2, <2>2, <2>3, <2>5, <2>6, WorkFacts DEF ChangesBuilt, TargetsOf
  <2>8. PreparedOnce'
    BY <1>2, <2>3, <2>5, <2>6, WorkFacts DEF PreparedOnce, Writes, PreparedFor
  <2>9. ASSUME ~apply.disturbed
        PROVE  Undisturbed'
    <3>1. Undisturbed
      BY <1>2, <2>9, WorkFacts
    <3>2. DiskFollows'
      BY <1>2, <2>5, <2>6, <3>1 DEF Undisturbed, DiskFollows
    <3>3. disk[f(src)] = apply.before[f(src)]
      BY <1>3, <2>6, <3>1 DEF Undisturbed, DiskFollows
    <3>4. BuiltFromBefore'
      <4>1. SUFFICES ASSUME NEW s \in Built'
                     PROVE  /\ changes[f(s)] = Merged(apply.plan, s, apply.before[f(s)], apply.accepted)
                            /\ changes[f(s)] # NoFile
        BY <2>5 DEF BuiltFromBefore
      <4>2. CASE s = src
        BY <1>5, <2>2, <3>3, <4>2 DEF content
      <4>3. CASE s \in Built
        <5>1. f(s) # f(src)
          BY <1>2, <1>3, <2>6, <4>3, WorkFacts DEF PlanTaken, StoredPlan, Injective, AllSources
        <5>2. f(s) \in DOMAIN apply.changes
          BY <1>2, <4>3, WorkFacts DEF ChangesBuilt, TargetsOf
        <5>3. changes[f(s)] = apply.changes[f(s)]
          BY <2>2, <5>1, <5>2
        <5>4. QED
          BY <3>1, <4>3, <5>3 DEF Undisturbed, BuiltFromBefore
      <4>4. QED
        BY <2>6, <4>2, <4>3
    <3>5. VerifiedBefore' /\ LinksChecked'
      BY <2>3, <2>5, <2>6 DEF VerifiedBefore, LinksChecked
    <3>6. QED
      BY <2>5, <3>1, <3>2, <3>4, <3>5 DEF Undisturbed
  <2>10. QED
    BY <1>2, <2>3, <2>5, <2>7, <2>8, <2>9, WorkFacts, WorksOn
<1>6. QED
  BY <1>4, <1>5

LEMMA CheckLinksStep ==
  ASSUME ImportInv, CheckLinks
  PROVE  ImportInv'
<1>1. apply.pc = "links" /\ UNCHANGED <<disk, links, plan>> /\ Working
  BY DEF CheckLinks, Working
<1>2. CASE Ends("invalid")
  BY <1>1, <1>2, WorkFacts, EndsStep DEF Results
<1>3. CASE /\ \A link \in apply.plan.links : \E v \in Value : \A f \in link.members :
                link.key \in Assigned(Proposed(f)) /\ Proposed(f)[link.key] = v
           /\ apply' = [apply EXCEPT !.pc = "verify"]
  <2>1. /\ apply' \in ApplyRecord /\ apply'.pc = "verify" /\ apply'.todo = apply.todo
        /\ apply'.changes = apply.changes /\ apply'.plan = apply.plan /\ apply'.chosen = apply.chosen
        /\ apply'.accepted = apply.accepted /\ apply'.prepared = apply.prepared
        /\ apply'.before = apply.before /\ apply'.disturbed = apply.disturbed
    BY <1>1, <1>3, WorkFacts DEF ApplyRecord
  <2>2. apply.todo = AllSources
    BY <1>1, WorkFacts DEF ChangesBuilt
  <2>3. /\ AllSources' = AllSources /\ Built' = Built
        /\ Verified' = {} /\ Staged' = {} /\ Staged = {} /\ Written' = {} /\ Written = {}
    BY <1>1, <2>1, <2>2 DEF AllSources, Built, Past, Verified, Staged, Written
  <2>4. ChangesBuilt'
    BY <1>1, <2>1, <2>3, WorkFacts DEF ChangesBuilt, TargetsOf
  <2>5. PreparedOnce'
    BY <1>1, <2>1, <2>3, WorkFacts DEF PreparedOnce, Writes, PreparedFor
  <2>6. ASSUME ~apply.disturbed
        PROVE  Undisturbed'
    <3>1. Undisturbed
      BY <1>1, <2>6, WorkFacts
    <3>2. DiskFollows' /\ BuiltFromBefore' /\ VerifiedBefore'
      BY <1>1, <2>1, <2>3, <3>1 DEF Undisturbed, DiskFollows, BuiltFromBefore, VerifiedBefore
    <3>3. \A f \in File : disk[f] = apply.before[f] /\ Proposed(f) = Outcome(f)
      BY <2>3, <3>1 DEF Undisturbed, DiskFollows, Proposed, Outcome
    <3>4. \A link \in apply.plan.links : link.members \subseteq File
      BY <1>1, WorkFacts DEF PlanTaken, StoredPlan, PlanRecord, Link
    <3>5. \A link \in apply.plan.links : \E v \in Value : \A f \in link.members :
            link.key \in Assigned(Outcome(f)) /\ Outcome(f)[link.key] = v
      BY <1>3, <3>3, <3>4
    <3>6. \A f : Outcome(f)' = Outcome(f)
      BY <2>1 DEF Outcome
    <3>7. LinksChecked'
      BY <2>1, <3>5, <3>6 DEF LinksChecked
    <3>8. QED
      BY <2>1, <3>1, <3>2, <3>7 DEF Undisturbed
  <2>7. QED
    BY <1>1, <2>1, <2>4, <2>5, <2>6, WorkFacts, WorksOn
<1>4. QED
  BY <1>2, <1>3 DEF CheckLinks

LEMMA VerifyStep ==
  ASSUME ImportInv, Verify
  PROVE  ImportInv'
<1> DEFINE f(src) == Target(apply.plan, src)
           todo(src) == IF apply.todo = {src} THEN AllSources ELSE apply.todo \ {src}
           pc(src) == IF apply.todo = {src} THEN "stage" ELSE apply.pc
<1>1. PICK src \in Here : IF disk[f(src)] = Expected(apply.plan, src)
                            THEN apply' = [apply EXCEPT !.todo = todo(src), !.pc = pc(src)]
                            ELSE Ends("changed")
  BY DEF Verify
<1>2. apply.pc = "verify" /\ UNCHANGED <<disk, links, plan>> /\ Working
  BY DEF Verify, Working
<1>3. src \in apply.todo /\ src \in AllSources /\ f(src) \in File /\ apply.todo \subseteq AllSources
  BY <1>2, WorkFacts DEF Here, Earliest, ChangesBuilt
<1>4. CASE Ends("changed")
  BY <1>2, <1>4, WorkFacts, EndsStep DEF Results
<1>5. CASE /\ disk[f(src)] = Expected(apply.plan, src)
           /\ apply' = [apply EXCEPT !.todo = todo(src), !.pc = pc(src)]
  <2>1. todo(src) \in SUBSET File /\ todo(src) \subseteq AllSources /\ pc(src) \in {"verify", "stage"}
        /\ (pc(src) = "stage" => todo(src) = AllSources /\ apply.todo = {src})
        /\ (pc(src) = "verify" => todo(src) = apply.todo \ {src})
    BY <1>2, <1>3, WorkFacts
  <2> HIDE DEF todo, pc
  <2>2. /\ apply' \in ApplyRecord /\ apply'.pc = pc(src) /\ apply'.todo = todo(src)
        /\ apply'.changes = apply.changes /\ apply'.plan = apply.plan /\ apply'.chosen = apply.chosen
        /\ apply'.accepted = apply.accepted /\ apply'.prepared = apply.prepared
        /\ apply'.before = apply.before /\ apply'.disturbed = apply.disturbed
    BY <1>2, <1>5, <2>1, WorkFacts DEF ApplyRecord
  <2>3. /\ AllSources' = AllSources /\ Built' = Built
        /\ Verified' = Verified \cup {src} /\ Staged' = {} /\ Staged = {} /\ Written' = {} /\ Written = {}
    BY <1>2, <1>3, <2>1, <2>2 DEF AllSources, Built, Past, Verified, Staged, Written
  <2>4. ChangesBuilt'
    BY <1>2, <2>1, <2>2, <2>3, WorkFacts DEF ChangesBuilt, TargetsOf
  <2>5. PreparedOnce'
    BY <1>2, <2>1, <2>2, <2>3, WorkFacts DEF PreparedOnce, Writes, PreparedFor
  <2>6. ASSUME ~apply.disturbed
        PROVE  Undisturbed'
    <3>1. Undisturbed
      BY <1>2, <2>6, WorkFacts
    <3>2. DiskFollows' /\ BuiltFromBefore'
      BY <1>2, <2>2, <2>3, <3>1 DEF Undisturbed, DiskFollows, BuiltFromBefore
    <3>3. apply.before[f(src)] = Expected(apply.plan, src)
      BY <1>3, <1>5, <2>3, <3>1 DEF Undisturbed, DiskFollows
    <3>4. VerifiedBefore'
      BY <2>2, <2>3, <3>1, <3>3 DEF Undisturbed, VerifiedBefore
    <3>5. LinksChecked'
      BY <1>2, <2>2, <3>1 DEF Undisturbed, LinksChecked, Outcome
    <3>6. QED
      BY <2>2, <3>1, <3>2, <3>4, <3>5 DEF Undisturbed
  <2>7. QED
    BY <1>2, <2>1, <2>2, <2>4, <2>5, <2>6, WorkFacts, WorksOn
<1>6. QED
  BY <1>1, <1>4, <1>5

\* One more file is staged, or needs no change.
LEMMA Prepares ==
  ASSUME ImportInv, Working, apply.pc = "stage", NEW src \in apply.todo, NEW f, f = Target(apply.plan, src),
         NEW new \in BOOLEAN, new <=> Expected(apply.plan, src) = NoFile,
         NEW prepared,
         prepared = IF Writes(src)
                      THEN Append(apply.prepared, [target |-> f, new |-> new, original |-> disk[f]])
                      ELSE apply.prepared,
         apply'.prepared = prepared, apply'.plan = apply.plan, apply'.accepted = apply.accepted,
         Staged' = Staged \cup {src}, Staged = Past,
         apply'.pc \in {"commit", "undo"} => apply'.at \in 1..Len(prepared)
  PROVE  /\ prepared \in Seq(PreparedRecord)
         /\ PreparedOnce'
         /\ \A i \in DOMAIN prepared :
              \/ i \in DOMAIN apply.prepared /\ prepared[i] = apply.prepared[i]
              \/ prepared[i].target = f /\ prepared[i].original = disk[f]
<1> DEFINE item == [target |-> f, new |-> new, original |-> disk[f]]
<1>1. /\ apply.prepared \in Seq(PreparedRecord) /\ f \in File /\ src \in AllSources /\ disk[f] \in Content
      /\ PreparedOnce
  BY WorkFacts DEF ChangesBuilt, ApplyRecord
<1>2. item \in PreparedRecord /\ item.target = f /\ item.original = disk[f] /\ item.new = new
  BY <1>1 DEF PreparedRecord
<1>3. \A s : (Writes(s)' <=> Writes(s)) /\ Target(apply'.plan, s) = Target(apply.plan, s)
             /\ Expected(apply'.plan, s) = Expected(apply.plan, s)
  BY DEF Writes
<1>4. \A s \in Staged : Target(apply.plan, s) # f
  BY <1>1, WorkFacts DEF PlanTaken, StoredPlan, Injective, AllSources, Past
<1>5. CASE ~Writes(src)
  <2>1. prepared = apply.prepared
    BY <1>5
  <2>2. PreparedOnce'
    BY <1>1, <1>3, <1>5, <2>1 DEF PreparedOnce, PreparedFor
  <2>3. QED
    BY <1>1, <2>1, <2>2
<1>6. CASE Writes(src)
  <2>1. prepared = Append(apply.prepared, item)
    BY <1>6
  <2> DEFINE n == Len(apply.prepared)
  <2> HIDE DEF item
  <2>2. /\ prepared \in Seq(PreparedRecord) /\ n \in Nat /\ Len(prepared) = n + 1
        /\ DOMAIN prepared = 1..n + 1 /\ DOMAIN apply.prepared = 1..n
        /\ prepared[n + 1] = item /\ \A i \in 1..n : prepared[i] = apply.prepared[i]
    BY <1>1, <1>2, <2>1
  <2>3. \A i \in 1..n : \E s \in Staged : Writes(s) /\ PreparedFor(i, s)
    BY <1>1, <2>2 DEF PreparedOnce
  <2>4. \A i \in 1..n : prepared[i].target # f
    BY <1>4, <2>2, <2>3 DEF PreparedFor
  <2> HIDE DEF n
  <2>5. ASSUME NEW i \in DOMAIN prepared
        PROVE  \E s \in Staged' : Writes(s)' /\ PreparedFor(i, s)'
    <3>1. CASE i \in 1..n
      BY <1>3, <2>2, <2>3, <3>1 DEF PreparedFor
    <3>2. CASE i = n + 1
      <4>1. PreparedFor(i, src)'
        BY <1>2, <1>3, <2>2, <3>2 DEF PreparedFor
      <4>2. QED
        BY <1>3, <1>6, <4>1
    <3>3. QED
      BY <2>2, <3>1, <3>2
  <2>6. ASSUME NEW s \in Staged', Writes(s)'
        PROVE  \E i \in DOMAIN prepared : prepared[i].target = Target(apply.plan, s)
    <3>1. CASE s = src
      BY <1>2, <2>2, <3>1
    <3>2. CASE s \in Staged
      BY <1>1, <1>3, <2>2, <2>6, <3>2 DEF PreparedOnce
    <3>3. QED
      BY <3>1, <3>2
  <2>7. \A i, j \in DOMAIN prepared : prepared[i].target = prepared[j].target => i = j
    <3>1. \A i, j \in 1..n : prepared[i].target = prepared[j].target => i = j
      BY <1>1, <2>2 DEF PreparedOnce
    <3>2. \A i \in DOMAIN prepared : i \in 1..n \/ i = n + 1
      BY <2>2
    <3>3. prepared[n + 1].target = f
      BY <1>2, <2>2
    <3>4. QED
      BY <2>4, <3>1, <3>2, <3>3
  <2>8. PreparedOnce'
    BY <1>3, <2>5, <2>6, <2>7 DEF PreparedOnce
  <2>9. QED
    BY <1>2, <2>2, <2>8
<1>7. QED
  BY <1>5, <1>6

LEMMA StageStep ==
  ASSUME ImportInv, Stage
  PROVE  ImportInv'
<1> DEFINE f(src) == Target(apply.plan, src)
           item(src) == [target |-> f(src), new |-> Expected(apply.plan, src) = NoFile, original |-> disk[f(src)]]
           prepared(src) == IF Writes(src) THEN Append(apply.prepared, item(src)) ELSE apply.prepared
<1>1. apply.pc = "stage" /\ UNCHANGED <<disk, links, plan>> /\ Working
  BY DEF Stage, Working
<1>2. PICK src \in Here :
        \/ Ends("io")
        \/ apply.todo # {src} /\ apply' = [apply EXCEPT !.prepared = prepared(src), !.todo = @ \ {src}]
        \/ Ends("ok")
        \/ /\ apply.todo = {src} /\ prepared(src) # << >>
           /\ apply' = [apply EXCEPT !.prepared = prepared(src), !.todo = {}, !.pc = "commit", !.at = 1]
  BY DEF Stage, Writes
<1>3. src \in apply.todo /\ src \in AllSources /\ f(src) \in File /\ apply.todo \subseteq AllSources
  BY <1>1, WorkFacts DEF Here, Earliest, ChangesBuilt
<1>4. CASE Ends("io") \/ Ends("ok")
  BY <1>1, <1>4, WorkFacts, EndsStep DEF Results
<1>5. PICK new \in BOOLEAN : new = (Expected(apply.plan, src) = NoFile)
  OBVIOUS
<1>6. prepared(src) = IF Writes(src)
                        THEN Append(apply.prepared, [target |-> f(src), new |-> new, original |-> disk[f(src)]])
                        ELSE apply.prepared
  BY <1>5, Zenon
<1>7. new <=> Expected(apply.plan, src) = NoFile
  BY <1>5
<1>8. prepared(src) \in Seq(PreparedRecord)
  <2>1. disk[f(src)] \in Content /\ apply.prepared \in Seq(PreparedRecord)
    BY <1>1, <1>3, WorkFacts DEF ApplyRecord
  <2>2. [target |-> f(src), new |-> new, original |-> disk[f(src)]] \in PreparedRecord
    BY <1>3, <2>1 DEF PreparedRecord
  <2>3. \A x \in PreparedRecord : Append(apply.prepared, x) \in Seq(PreparedRecord)
    BY <2>1
  <2> HIDE DEF prepared, item
  <2>4. QED
    BY <1>6, <2>1, <2>2, <2>3, Zenon
<1> HIDE DEF prepared, item
<1>9. ASSUME apply' \in ApplyRecord, apply'.pc \in {"stage", "commit"}, apply'.prepared = prepared(src),
             apply'.changes = apply.changes, apply'.plan = apply.plan, apply'.chosen = apply.chosen,
             apply'.accepted = apply.accepted, apply'.before = apply.before,
             apply'.disturbed = apply.disturbed, apply'.todo = apply.todo \ {src},
             apply'.pc = "commit" => apply.todo = {src} /\ apply'.at = 1 /\ prepared(src) # << >>
      PROVE  ImportInv'
  <2>1. /\ AllSources' = AllSources /\ Built' = Built /\ Built = AllSources
        /\ Verified' = Verified /\ Verified = AllSources
        /\ Staged' = Staged \cup {src} /\ Staged = Past
    BY <1>1, <1>3, <1>9 DEF AllSources, Built, Past, Verified, Staged
  <2>2. Written' = {} /\ Written = {}
    BY <1>1, <1>9 DEF Written
  <2>3. apply'.pc \in {"commit", "undo"} => apply'.at \in 1..Len(prepared(src))
    BY <1>8, <1>9
  <2>4. /\ PreparedOnce'
        /\ \A i \in DOMAIN prepared(src) :
             \/ i \in DOMAIN apply.prepared /\ prepared(src)[i] = apply.prepared[i]
             \/ prepared(src)[i].target = f(src) /\ prepared(src)[i].original = disk[f(src)]
    BY <1>1, <1>3, <1>6, <1>7, <1>9, <2>1, <2>3, Prepares
  <2>5. ChangesBuilt'
    BY <1>1, <1>3, <1>9, <2>1, WorkFacts DEF ChangesBuilt, TargetsOf
  <2>6. ASSUME ~apply.disturbed
        PROVE  Undisturbed'
    <3>1. Undisturbed
      BY <1>1, <2>6, WorkFacts
    <3>2. BuiltFromBefore' /\ VerifiedBefore'
      BY <1>9, <2>1, <3>1 DEF Undisturbed, BuiltFromBefore, VerifiedBefore
    <3>3. LinksChecked'
      BY <1>1, <1>9, <3>1 DEF Undisturbed, LinksChecked, Outcome
    <3>4. disk[f(src)] = apply.before[f(src)]
      BY <1>3, <2>2, <3>1 DEF Undisturbed, DiskFollows
    <3>5. \A i \in DOMAIN prepared(src) : prepared(src)[i].original = apply.before[prepared(src)[i].target]
      BY <2>4, <3>1, <3>4 DEF Undisturbed, DiskFollows
    <3>6. \A g \in File : disk'[g] = apply.before[g]
      BY <1>1, <2>2, <3>1 DEF Undisturbed, DiskFollows
    <3>7. DiskFollows'
      BY <1>9, <2>2, <3>5, <3>6 DEF DiskFollows
    <3>8. QED
      BY <1>9, <3>1, <3>2, <3>3, <3>7 DEF Undisturbed
  <2>7. QED
    BY <1>1, <1>9, <2>4, <2>5, <2>6, WorkFacts, WorksOn
<1>10. CASE apply.todo # {src} /\ apply' = [apply EXCEPT !.prepared = prepared(src), !.todo = @ \ {src}]
  <2>1. apply.todo \ {src} \in SUBSET File
    BY <1>1, WorkFacts DEF ApplyRecord
  <2>2. /\ apply' \in ApplyRecord /\ apply'.pc = "stage" /\ apply'.prepared = prepared(src)
        /\ apply'.changes = apply.changes /\ apply'.plan = apply.plan /\ apply'.chosen = apply.chosen
        /\ apply'.accepted = apply.accepted /\ apply'.before = apply.before
        /\ apply'.disturbed = apply.disturbed /\ apply'.todo = apply.todo \ {src}
    BY <1>1, <1>8, <1>10, <2>1, WorkFacts DEF ApplyRecord
  <2>3. QED
    BY <1>9, <2>2
<1>11. CASE /\ apply.todo = {src} /\ prepared(src) # << >>
            /\ apply' = [apply EXCEPT !.prepared = prepared(src), !.todo = {}, !.pc = "commit", !.at = 1]
  <2>1. /\ apply' \in ApplyRecord /\ apply'.pc = "commit" /\ apply'.prepared = prepared(src)
        /\ apply'.changes = apply.changes /\ apply'.plan = apply.plan /\ apply'.chosen = apply.chosen
        /\ apply'.accepted = apply.accepted /\ apply'.before = apply.before /\ apply'.at = 1
        /\ apply'.disturbed = apply.disturbed /\ apply'.todo = {}
    BY <1>1, <1>8, <1>11, WorkFacts DEF ApplyRecord
  <2>2. QED
    BY <1>9, <1>11, <2>1
<1>12. QED
  BY <1>2, <1>4, <1>10, <1>11

----------------------------------------------------------------------------
\* What the invariant says of the renames.
LEMMA ItemFacts ==
  ASSUME ImportInv, apply.pc \in {"commit", "undo"}
  PROVE  /\ Working /\ apply.at \in 1..Len(apply.prepared) /\ apply.at \in DOMAIN apply.prepared
         /\ Len(apply.prepared) \in Nat /\ DOMAIN apply.prepared = 1..Len(apply.prepared)
         /\ Item \in PreparedRecord /\ Item = apply.prepared[apply.at] /\ Item.target \in File
         /\ Item.target \in DOMAIN apply.changes /\ apply.changes[Item.target] \in Bytes
         /\ \A i \in DOMAIN apply.prepared : apply.prepared[i].target = Item.target => i = apply.at
         /\ \E src \in AllSources : PreparedFor(apply.at, src) /\ Writes(src)
         /\ Built = AllSources /\ Verified = AllSources /\ Staged = AllSources
<1>1. Working
  BY DEF Working
<1>2. /\ apply.prepared \in Seq(PreparedRecord) /\ apply.changes \in FilesTo(Bytes)
      /\ PreparedOnce /\ ChangesBuilt
  BY <1>1, WorkFacts DEF ApplyRecord
<1>3. Built = AllSources /\ Verified = AllSources /\ Staged = AllSources
  BY DEF Built, Verified, Staged
<1>4. /\ Len(apply.prepared) \in Nat /\ DOMAIN apply.prepared = 1..Len(apply.prepared)
      /\ \A i \in DOMAIN apply.prepared : apply.prepared[i] \in PreparedRecord
  BY <1>2
<1>5. apply.at \in 1..Len(apply.prepared)
  BY <1>2 DEF PreparedOnce
<1>6. Item \in PreparedRecord /\ Item = apply.prepared[apply.at] /\ Item.target \in File
  BY <1>4, <1>5 DEF Item, PreparedRecord
<1>7. PICK src \in AllSources : PreparedFor(apply.at, src) /\ Writes(src)
  BY <1>2, <1>3, <1>4, <1>5 DEF PreparedOnce
<1>8. Item.target = Target(apply.plan, src)
  BY <1>6, <1>7 DEF PreparedFor
<1>9. Item.target \in DOMAIN apply.changes
  BY <1>2, <1>3, <1>8 DEF ChangesBuilt, TargetsOf
<1>10. apply.changes[Item.target] \in Bytes
  BY <1>2, <1>9 DEF FilesTo
<1>11. \A i \in DOMAIN apply.prepared : apply.prepared[i].target = Item.target => i = apply.at
  BY <1>2, <1>4, <1>5, <1>6 DEF PreparedOnce
<1>12. QED
  BY <1>1, <1>3, <1>4, <1>5, <1>6, <1>7, <1>9, <1>10, <1>11

\* A rename that has been made or taken back, or failed: only at and the disk move.
LEMMA RenamesOn ==
  ASSUME ImportInv, apply.pc \in {"commit", "undo"}, UNCHANGED <<links, plan>>,
         disk' \in [File -> Content], NEW pc \in {"commit", "undo"}, NEW at \in 1..Len(apply.prepared),
         apply' = [apply EXCEPT !.pc = pc, !.at = at],
         ~apply.disturbed => \A f \in File :
           disk'[f] = IF \E i \in (IF pc = "commit" THEN 1..at - 1 ELSE 1..at) : apply.prepared[i].target = f
                        THEN apply.changes[f] ELSE apply.before[f]
  PROVE  ImportInv'
<1>1. Working
  BY ItemFacts
<1>2. /\ apply' \in ApplyRecord /\ apply'.pc = pc /\ apply'.at = at /\ apply'.prepared = apply.prepared
      /\ apply'.changes = apply.changes /\ apply'.plan = apply.plan /\ apply'.chosen = apply.chosen
      /\ apply'.accepted = apply.accepted /\ apply'.before = apply.before
      /\ apply'.disturbed = apply.disturbed /\ apply'.todo = apply.todo
  <2>1. at \in Nat
    BY ItemFacts
  <2>2. QED
    BY <1>1, <2>1, WorkFacts DEF ApplyRecord
<1>3. /\ AllSources' = AllSources /\ Built' = Built /\ Verified' = Verified /\ Staged' = Staged
      /\ Written' = IF pc = "commit" THEN 1..at - 1 ELSE 1..at
  BY <1>2, ItemFacts DEF AllSources, Built, Verified, Staged, Written
<1>4. ChangesBuilt'
  BY <1>1, <1>2, <1>3, WorkFacts DEF ChangesBuilt, TargetsOf
<1>5. PreparedOnce'
  BY <1>1, <1>2, <1>3, WorkFacts DEF PreparedOnce, Writes, PreparedFor
<1>6. ASSUME ~apply.disturbed
      PROVE  Undisturbed'
  <2>1. Undisturbed
    BY <1>1, <1>6, WorkFacts
  <2>2. BuiltFromBefore' /\ VerifiedBefore'
    BY <1>2, <1>3, <2>1 DEF Undisturbed, BuiltFromBefore, VerifiedBefore
  <2>3. LinksChecked'
    BY <1>2, <2>1 DEF Undisturbed, LinksChecked, Outcome
  <2>4. DiskFollows'
    <3>1. \A f \in File : disk'[f] = IF \E i \in Written' : apply.prepared[i].target = f
                                      THEN apply.changes[f] ELSE apply.before[f]
      BY <1>3, <1>6
    <3>2. QED
      BY <1>2, <2>1, <3>1 DEF Undisturbed, DiskFollows
  <2>5. QED
    BY <1>2, <2>1, <2>2, <2>3, <2>4 DEF Undisturbed
<1>7. QED
  BY <1>1, <1>2, <1>4, <1>5, <1>6, WorkFacts, WorksOn

\* The disk after a rename ...
LEMMA CommittedDisk ==
  ASSUME ImportInv, apply.pc = "commit", ~apply.disturbed,
         disk' = [disk EXCEPT ![Item.target] = apply.changes[Item.target]]
  PROVE  \A f \in File :
           disk'[f] = IF \E i \in 1..apply.at : apply.prepared[i].target = f
                        THEN apply.changes[f] ELSE apply.before[f]
<1>1. /\ Undisturbed /\ disk \in [File -> Content] /\ Written = 1..apply.at - 1
      /\ apply.at \in 1..Len(apply.prepared) /\ Len(apply.prepared) \in Nat
  BY ItemFacts, WorkFacts DEF Written
<1>2. TAKE f \in File
<1>3. CASE f = Item.target
  <2>1. disk'[f] = apply.changes[f]
    BY <1>1, <1>3, ItemFacts
  <2>2. apply.at \in 1..apply.at /\ apply.prepared[apply.at].target = f
    BY <1>1, <1>3, ItemFacts
  <2>3. QED
    BY <2>1, <2>2
<1>4. CASE f # Item.target
  <2>1. disk'[f] = disk[f]
    BY <1>1, <1>4, ItemFacts
  <2>2. apply.prepared[apply.at].target # f
    BY <1>4, ItemFacts
  <2>3. (\E i \in 1..apply.at : apply.prepared[i].target = f)
          <=> \E i \in 1..apply.at - 1 : apply.prepared[i].target = f
    BY <1>1, <2>2
  <2>4. QED
    BY <1>1, <2>1, <2>3 DEF Undisturbed, DiskFollows
<1>5. QED
  BY <1>3, <1>4

\* ... and after one has been taken back.
LEMMA UndoneDisk ==
  ASSUME ImportInv, apply.pc = "undo", ~apply.disturbed,
         disk' = [disk EXCEPT ![Item.target] = IF Item.new THEN NoFile ELSE Item.original]
  PROVE  \A f \in File :
           disk'[f] = IF \E i \in 1..apply.at - 1 : apply.prepared[i].target = f
                        THEN apply.changes[f] ELSE apply.before[f]
<1>1. /\ Undisturbed /\ disk \in [File -> Content] /\ Written = 1..apply.at
      /\ apply.at \in 1..Len(apply.prepared) /\ Len(apply.prepared) \in Nat
  BY ItemFacts, WorkFacts DEF Written
<1>2. (IF Item.new THEN NoFile ELSE Item.original) = apply.before[Item.target]
  <2>1. PICK src \in AllSources : PreparedFor(apply.at, src)
    BY ItemFacts
  <2>2. CASE Item.new
    <3>1. Item.target = Target(apply.plan, src) /\ Expected(apply.plan, src) = NoFile
      BY <2>1, <2>2, ItemFacts DEF PreparedFor
    <3>2. apply.before[Target(apply.plan, src)] = Expected(apply.plan, src)
      BY <1>1, ItemFacts DEF Undisturbed, VerifiedBefore
    <3>3. QED
      BY <2>2, <3>1, <3>2
  <2>3. CASE ~Item.new
    <3>1. Item.original = apply.before[Item.target]
      BY <1>1, ItemFacts DEF Undisturbed, DiskFollows
    <3>2. QED
      BY <2>3, <3>1
  <2>4. QED
    BY <2>2, <2>3
<1>3. TAKE f \in File
<1>4. CASE f = Item.target
  <2>1. disk'[f] = apply.before[f]
    BY <1>1, <1>2, <1>4, ItemFacts
  <2>2. ASSUME NEW i \in 1..apply.at - 1
        PROVE  apply.prepared[i].target # f
    <3>1. i \in DOMAIN apply.prepared /\ i # apply.at
      BY <1>1, ItemFacts
    <3>2. QED
      BY <1>4, <3>1, ItemFacts
  <2>3. QED
    BY <2>1, <2>2
<1>5. CASE f # Item.target
  <2>1. disk'[f] = disk[f]
    BY <1>1, <1>5, ItemFacts
  <2>2. apply.prepared[apply.at].target # f
    BY <1>5, ItemFacts
  <2>3. (\E i \in 1..apply.at : apply.prepared[i].target = f)
          <=> \E i \in 1..apply.at - 1 : apply.prepared[i].target = f
    BY <1>1, <2>2
  <2>4. QED
    BY <1>1, <2>1, <2>3 DEF Undisturbed, DiskFollows
<1>6. QED
  BY <1>4, <1>5

LEMMA CommitStep ==
  ASSUME ImportInv, Commit
  PROVE  ImportInv'
<1>1. /\ apply.pc = "commit" /\ UNCHANGED <<links, plan>>
      /\ disk' = [disk EXCEPT ![Item.target] = apply.changes[Item.target]]
  BY DEF Commit
<1>2. disk' \in [File -> Content]
  BY <1>1, ItemFacts, WorkFacts DEF Content
<1>3. CASE Ends("ok")
  BY <1>1, <1>2, <1>3, ItemFacts, EndsStep DEF Results
<1>4. CASE apply.at # Len(apply.prepared) /\ apply' = [apply EXCEPT !.at = @ + 1]
  <2> DEFINE at == apply.at + 1
  <2>1. apply \in ApplyRecord
    BY <1>1, ItemFacts, WorkFacts
  <2>2. apply' = [apply EXCEPT !.pc = "commit", !.at = at]
    BY <1>1, <1>4, <2>1 DEF ApplyRecord
  <2>3. at \in 1..Len(apply.prepared) /\ at - 1 = apply.at
    BY <1>1, <1>4, ItemFacts
  <2>4. ~apply.disturbed => \A f \in File :
          disk'[f] = IF \E i \in 1..at - 1 : apply.prepared[i].target = f
                       THEN apply.changes[f] ELSE apply.before[f]
    BY <1>1, <2>3, CommittedDisk
  <2> HIDE DEF at
  <2>5. QED
    BY <1>1, <1>2, <2>2, <2>3, <2>4, RenamesOn
<1>5. QED
  BY <1>3, <1>4 DEF Commit

LEMMA CommitFailsStep ==
  ASSUME ImportInv, CommitFails
  PROVE  ImportInv'
<1>1. apply.pc = "commit" /\ UNCHANGED <<disk, links, plan>> /\ Working /\ disk' \in [File -> Content]
  BY ItemFacts, WorkFacts DEF CommitFails
<1>2. CASE Ends("io")
  BY <1>1, <1>2, EndsStep DEF Results
<1>3. CASE apply.at # 1 /\ apply' = [apply EXCEPT !.pc = "undo", !.at = @ - 1]
  <2> DEFINE at == apply.at - 1
  <2>1. apply' = [apply EXCEPT !.pc = "undo", !.at = at]
    BY <1>3
  <2>2. at \in 1..Len(apply.prepared)
    BY <1>1, <1>3, ItemFacts
  <2>3. Written = 1..at
    BY <1>1 DEF Written
  <2>4. ~apply.disturbed => \A f \in File :
          disk'[f] = IF \E i \in 1..at : apply.prepared[i].target = f
                       THEN apply.changes[f] ELSE apply.before[f]
    BY <1>1, <2>3, WorkFacts DEF Undisturbed, DiskFollows
  <2> HIDE DEF at
  <2>5. QED
    BY <1>1, <2>1, <2>2, <2>4, RenamesOn
<1>4. QED
  BY <1>2, <1>3 DEF CommitFails

LEMMA UndoStep ==
  ASSUME ImportInv, Undo
  PROVE  ImportInv'
<1>1. /\ apply.pc = "undo" /\ UNCHANGED <<links, plan>>
      /\ disk' = [disk EXCEPT ![Item.target] = IF Item.new THEN NoFile ELSE Item.original]
  BY DEF Undo
<1>2. disk' \in [File -> Content]
  <2>1. (IF Item.new THEN NoFile ELSE Item.original) \in Content
    BY <1>1, ItemFacts DEF Content, PreparedRecord
  <2>2. QED
    BY <1>1, <2>1, ItemFacts, WorkFacts
<1>3. CASE Ends("io")
  BY <1>1, <1>2, <1>3, ItemFacts, EndsStep DEF Results
<1>4. CASE apply.at # 1 /\ apply' = [apply EXCEPT !.at = @ - 1]
  <2> DEFINE at == apply.at - 1
  <2>1. apply \in ApplyRecord
    BY <1>1, ItemFacts, WorkFacts
  <2>2. apply' = [apply EXCEPT !.pc = "undo", !.at = at]
    BY <1>1, <1>4, <2>1 DEF ApplyRecord
  <2>3. at \in 1..Len(apply.prepared)
    BY <1>1, <1>4, ItemFacts
  <2>4. ~apply.disturbed => \A f \in File :
          disk'[f] = IF \E i \in 1..at : apply.prepared[i].target = f
                       THEN apply.changes[f] ELSE apply.before[f]
    BY <1>1, UndoneDisk
  <2> HIDE DEF at
  <2>5. QED
    BY <1>1, <1>2, <2>2, <2>3, <2>4, RenamesOn
<1>5. QED
  BY <1>3, <1>4 DEF Undo

\* Failures end the apply where it is.
LEMMA FailureSteps ==
  ASSUME ImportInv, UndoFails \/ ApplyFails \/ Die
  PROVE  ImportInv'
<1>1. Working /\ UNCHANGED <<disk, links, plan>>
  BY DEF UndoFails, ApplyFails, Die, Working
<1>2. Ends("incomplete") \/ Ends("io") \/ Ends("crashed")
  BY DEF UndoFails, ApplyFails, Die
<1>3. disk' \in [File -> Content]
  BY <1>1, WorkFacts
<1>4. QED
  BY <1>1, <1>2, <1>3, EndsStep DEF Results

----------------------------------------------------------------------------
\* Others write.
LEMMA CountedStep ==
  ASSUME ImportInv, Counted, disk' \in [File -> Content], links' \in SUBSET Link
  PROVE  ImportInv'
<1>1. CASE plan # NoPlan /\ plan' = [plan EXCEPT !.writes = @ + 1] /\ UNCHANGED apply
  <2> DEFINE q == [plan EXCEPT !.writes = @ + 1]
  <2>1. plan \in PlanRecord /\ plan.writes + 1 \in Nat
    <3>1. plan \in PlanRecord
      BY <1>1, PlanFacts
    <3>2. plan.writes \in Nat
      BY <3>1 DEF PlanRecord
    <3>3. QED
      BY <3>1, <3>2
  <2>2. /\ q \in PlanRecord /\ q.package = plan.package /\ q.links = plan.links
        /\ q.entries = plan.entries /\ q.todo = plan.todo /\ q.stored = plan.stored
    BY <2>1 DEF PlanRecord
  <2>3. plan' = q
    BY <1>1
  <2> HIDE DEF q
  <2>4. StoredPlan(q) \/ GrowingPlan(q)
    BY <1>1, <2>2, PlanFacts DEF StoredPlan, GrowingPlan, Injective, Sources, Target
  <2>5. QED
    BY <1>1, <2>3, <2>4, PlanFacts, PlanStep
<1>2. CASE /\ apply.pc \notin {"rest", "done"} /\ UNCHANGED plan
           /\ apply' = [apply EXCEPT !.plan.writes = @ + 1, !.disturbed = TRUE]
  <2> DEFINE q == [apply.plan EXCEPT !.writes = @ + 1]
  <2>1. Working
    BY <1>2 DEF Working
  <2>2. apply \in ApplyRecord /\ apply.plan \in PlanRecord /\ apply.plan.writes + 1 \in Nat
    <3>1. apply.plan \in PlanRecord
      BY <2>1, WorkFacts DEF PlanTaken, StoredPlan
    <3>2. apply.plan.writes \in Nat
      BY <3>1 DEF PlanRecord
    <3>3. QED
      BY <2>1, <3>1, <3>2, WorkFacts
  <2>3. /\ q \in PlanRecord /\ q.package = apply.plan.package /\ q.links = apply.plan.links
        /\ q.entries = apply.plan.entries /\ q.stored = apply.plan.stored
    BY <2>2 DEF PlanRecord
  <2>4. apply' = [apply EXCEPT !.plan = q, !.disturbed = TRUE]
    BY <1>2, <2>2 DEF ApplyRecord
  <2> HIDE DEF q
  <2>5. /\ apply' \in ApplyRecord /\ apply'.pc = apply.pc /\ apply'.plan = q /\ apply'.chosen = apply.chosen
        /\ apply'.accepted = apply.accepted /\ apply'.changes = apply.changes
        /\ apply'.todo = apply.todo /\ apply'.prepared = apply.prepared /\ apply'.at = apply.at
        /\ apply'.disturbed
    BY <2>2, <2>3, <2>4 DEF ApplyRecord
  <2>6. /\ Sources(q) = Sources(apply.plan) /\ Conflicts(q) = Conflicts(apply.plan)
        /\ \A src : Target(q, src) = Target(apply.plan, src) /\ Expected(q, src) = Expected(apply.plan, src)
        /\ \A chosen : Expanded(q, chosen) = Expanded(apply.plan, chosen)
        /\ \A src, accepted : Changes(q, src, accepted) <=> Changes(apply.plan, src, accepted)
    BY <2>3, SamePlan
  <2>7. /\ AllSources' = AllSources /\ Built' = Built /\ Staged' = Staged
        /\ \A src : Writes(src)' <=> Writes(src)
    BY <2>5, <2>6 DEF AllSources, Built, Past, Staged, Writes
  <2>8. PlanTaken'
    BY <2>1, <2>3, <2>5, <2>6, WorkFacts DEF PlanTaken, StoredPlan, Injective
  <2>9. ChangesBuilt'
    BY <2>1, <2>5, <2>6, <2>7, WorkFacts DEF ChangesBuilt, TargetsOf
  <2>10. \A i, src : PreparedFor(i, src)' <=> PreparedFor(i, src)
    BY <2>5, <2>6 DEF PreparedFor
  <2>11. PreparedOnce'
    BY <2>1, <2>5, <2>6, <2>7, <2>10, WorkFacts DEF PreparedOnce
  <2>12. ImportTypeOK' /\ PlanHolds'
    BY <1>2, <2>1, <2>5, WorkFacts DEF ImportTypeOK, PlanHolds
  <2>13. QED
    BY <2>5, <2>8, <2>9, <2>11, <2>12 DEF ImportInv
<1>3. QED
  BY <1>1, <1>2 DEF Counted

LEMMA OthersStep ==
  ASSUME ImportInv, Edit \/ Relink
  PROVE  ImportInv'
<1>1. disk \in [File -> Content] /\ links \in SUBSET Link
  BY DEF ImportInv, ImportTypeOK
<1>2. disk' \in [File -> Content] /\ links' \in SUBSET Link
  BY <1>1 DEF Edit, Relink
<1>3. QED
  BY <1>2, CountedStep DEF Edit, Relink

LEMMA ImportKept ==
  ASSUME ImportInv, ImportNext
  PROVE  ImportInv'
<1>1. CASE \E src, target \in File : Remap(src, target)
  BY <1>1, RemapStep
<1>2. CASE Stored /\ \E chosen \in SUBSET Occurrences(plan) : BeginApply(chosen)
  BY <1>2, BeginApplyStep
<1>3. CASE ApplyStep
  BY <1>3, BuildStep, CheckLinksStep, VerifyStep, StageStep, CommitStep, CommitFailsStep, UndoStep,
     FailureSteps, ReportStep DEF ApplyStep
<1>4. QED
  BY <1>1, <1>2, <1>3, BuildEntryStep, StorePlanStep, DropPlanStep, OthersStep DEF ImportNext

\* Between the preview and the end of an apply: what is planned, built, verified, staged and renamed,
\* and how the files follow it as long as nobody else writes, for every package a folder offers.
THEOREM ImportInvariant == Spec => []ImportInv
<1>1. ASSUME Init
      PROVE  ImportInv
  <2>1. /\ disk \in [File -> Content] /\ links \in SUBSET Link /\ plan = NoPlan /\ apply = Resting
    BY <1>1 DEF Init, ImportInit
  <2>2. apply \in ApplyRecord /\ apply.pc = "rest"
    BY <2>1, RestingIs
  <2>3. QED
    BY <2>1, <2>2 DEF ImportInv, ImportTypeOK, PlanHolds, Working
<1>2. ASSUME ChannelInv, ImportInv, [Next]_vars
      PROVE  ImportInv'
  <2>1. CASE PlanPublished
    <3>1. PICK id \in DOMAIN AtPath.packages : BeginPlan(AtPath.packages[id])
      BY <2>1 DEF PlanPublished
    <3>2. AtPath \in FolderRecord
      BY <1>2 DEF ChannelInv, ChannelTypeOK, AtPath
    <3>3. AtPath.packages[id] \in FilesTo(Bytes)
      BY <3>1, <3>2 DEF FolderRecord
    <3>4. QED
      BY <1>2, <3>1, <3>3, BeginPlanStep
  <2>2. CASE ImportNext
    BY <1>2, <2>2, ImportKept
  <2>3. CASE UNCHANGED importVars
    BY <1>2, <2>3 DEF importVars, ImportInv, ImportTypeOK, PlanHolds, Working, PlanTaken, ChangesBuilt,
       PreparedOnce, PreparedFor, Undisturbed, BuiltFromBefore, VerifiedBefore, LinksChecked, DiskFollows,
       Outcome, Built, Verified, Staged, Written, Past, AllSources, TargetsOf, Writes
  <2>4. QED
    BY <1>2, <2>1, <2>2, <2>3 DEF Next, vars
<1>3. QED
  BY <1>1, <1>2, ChannelInvariant, PTL DEF Spec

----------------------------------------------------------------------------
(* The ends of an import. *)

LEMMA EndsWith == ASSUME NEW result, Ends(result)
                  PROVE  apply'.pc = "done" /\ apply'.result = result
BY DEF Ends, Resting

\* Which steps end an apply, and with which result.
LEMMA WaysToEnd ==
  ASSUME ImportInv, Working, ImportNext, apply'.pc = "done"
  PROVE  \/ /\ apply.pc \in {"build", "links", "verify", "stage"} /\ UNCHANGED disk
            /\ apply'.result \in {"io", "invalid", "changed", "crashed"}
         \/ /\ apply.pc = "stage" /\ UNCHANGED disk /\ apply'.result = "ok" /\ apply.prepared = << >>
            /\ \E src \in AllSources : apply.todo = {src} /\ ~Writes(src)
         \/ Commit /\ apply.at = Len(apply.prepared) /\ apply'.result = "ok"
         \/ apply.pc = "commit" /\ apply.at = 1 /\ UNCHANGED disk /\ apply'.result = "io"
         \/ Undo /\ apply.at = 1 /\ apply'.result = "io"
         \/ apply'.result \in {"incomplete", "crashed"}
<1>1. apply \in ApplyRecord /\ plan = NoPlan /\ apply.pc # "done" /\ apply.pc # "rest"
  BY WorkFacts DEF Working
<1>2. CASE Build
  <2>1. PICK src \in Here :
          \/ Ends("invalid")
          \/ \E changes : apply' = [apply EXCEPT !.changes = changes,
                            !.todo = IF @ = {src} THEN AllSources ELSE @ \ {src},
                            !.pc = IF apply.todo = {src} THEN "links" ELSE @]
    BY <1>2 DEF Build
  <2>2. Ends("invalid")
    BY <1>1, <2>1 DEF ApplyRecord
  <2>3. QED
    BY <1>2, <2>2, EndsWith DEF Build
<1>3. CASE CheckLinks
  <2>1. Ends("invalid")
    BY <1>1, <1>3 DEF CheckLinks, ApplyRecord
  <2>2. QED
    BY <1>3, <2>1, EndsWith DEF CheckLinks
<1>4. CASE Verify
  <2>1. Ends("changed")
    BY <1>1, <1>4 DEF Verify, ApplyRecord
  <2>2. QED
    BY <1>4, <2>1, EndsWith DEF Verify
<1>5. CASE Stage
  <2>1. PICK src \in Here :
          \/ Ends("io")
          \/ \E prepared : apply' = [apply EXCEPT !.prepared = prepared, !.todo = @ \ {src}]
          \/ /\ apply.todo = {src} /\ Ends("ok")
             /\ \E item : (IF Writes(src) THEN Append(apply.prepared, item) ELSE apply.prepared) = << >>
          \/ \E prepared : apply' = [apply EXCEPT !.prepared = prepared, !.todo = {}, !.pc = "commit",
                                                  !.at = 1]
    BY <1>5 DEF Stage, Writes
  <2>2. CASE Ends("io")
    BY <1>5, <2>2, EndsWith DEF Stage
  <2>3. CASE /\ apply.todo = {src} /\ Ends("ok")
             /\ \E item : (IF Writes(src) THEN Append(apply.prepared, item) ELSE apply.prepared) = << >>
    <3>1. PICK item : (IF Writes(src) THEN Append(apply.prepared, item) ELSE apply.prepared) = << >>
      BY <2>3
    <3>2. apply.prepared \in Seq(PreparedRecord)
      BY <1>1 DEF ApplyRecord
    <3>3. Append(apply.prepared, item) # << >>
      BY <3>2
    <3>4. ~Writes(src) /\ apply.prepared = << >>
      BY <3>1, <3>3
    <3>5. src \in AllSources
      BY <2>3, WorkFacts DEF ChangesBuilt
    <3>6. QED
      BY <1>5, <2>3, <3>4, <3>5, EndsWith DEF Stage
  <2>4. QED
    BY <1>1, <2>1, <2>2, <2>3 DEF ApplyRecord
<1>6. CASE Commit
  <2>1. apply.at = Len(apply.prepared) /\ Ends("ok")
    BY <1>1, <1>6 DEF Commit, ApplyRecord
  <2>2. QED
    BY <1>6, <2>1, EndsWith
<1>7. CASE CommitFails
  <2>0. ASSUME NEW at, apply' = [apply EXCEPT !.pc = "undo", !.at = at]
        PROVE  FALSE
    BY <1>1, <2>0 DEF ApplyRecord
  <2>1. apply.at = 1 /\ Ends("io")
    BY <1>7, <2>0 DEF CommitFails
  <2>2. QED
    BY <1>7, <2>1, EndsWith DEF CommitFails
<1>8. CASE Undo
  <2>1. apply.at = 1 /\ Ends("io")
    BY <1>1, <1>8 DEF Undo, ApplyRecord
  <2>2. QED
    BY <1>8, <2>1, EndsWith
<1>9. CASE UndoFails \/ Die
  BY <1>9, EndsWith DEF UndoFails, Die
<1>10. CASE ApplyFails
  BY <1>10, EndsWith DEF ApplyFails
<1>11. apply' # apply
  BY <1>1
<1>12. CASE Edit \/ Relink
  <2>1. apply' = [apply EXCEPT !.plan.writes = @ + 1, !.disturbed = TRUE]
    BY <1>1, <1>11, <1>12 DEF Edit, Relink, Counted
  <2>2. apply'.pc = apply.pc
    BY <1>1, <2>1 DEF ApplyRecord
  <2>3. QED
    BY <1>1, <2>2
<1>13. ~Report
  BY <1>1 DEF Report
<1>14. CASE \/ BuildEntry \/ StorePlan \/ DropPlan \/ \E src, target \in File : Remap(src, target)
            \/ Stored /\ \E chosen \in SUBSET Occurrences(plan) : BeginApply(chosen)
  BY <1>1, <1>14 DEF BuildEntry, Planning, StorePlan, DropPlan, Stored, Remap
<1>15. QED
  BY <1>2, <1>3, <1>4, <1>5, <1>6, <1>7, <1>8, <1>9, <1>10, <1>12, <1>13, <1>14 DEF ImportNext, ApplyStep

\* Passing over a file that would not be changed leaves its outcome there.
LEMMA UnwrittenIsThere ==
  ASSUME ImportInv, Working, ~apply.disturbed, apply.pc \in {"stage", "commit", "undo"},
         NEW src \in AllSources, ~Writes(src)
  PROVE  Outcome(Target(apply.plan, src)) = apply.before[Target(apply.plan, src)]
<1> DEFINE f == Target(apply.plan, src)
<1>1. Undisturbed /\ Built = AllSources /\ Verified = AllSources
  BY WorkFacts DEF Built, Verified
<1>2. /\ apply.changes[f] = Merged(apply.plan, src, apply.before[f], apply.accepted)
      /\ apply.changes[f] # NoFile /\ apply.before[f] = Expected(apply.plan, src)
  BY <1>1 DEF Undisturbed, BuiltFromBefore, VerifiedBefore
<1>3. apply.plan \in PlanRecord /\ src \in DOMAIN apply.plan.entries /\ src \in Sources(apply.plan)
  BY WorkFacts DEF PlanTaken, StoredPlan, AllSources
<1>4. apply.changes[f] = apply.before[f]
  BY <1>2, <1>3, NotWrittenIsSame DEF Writes
<1>5. QED
  BY <1>4 DEF Outcome

\* An apply that succeeds has made every file its outcome.
LEMMA EndsWell ==
  ASSUME ImportInv, ImportNext, EndsUndisturbed("ok")
  PROVE  /\ Working /\ Undisturbed /\ apply.pc \in {"stage", "commit"}
         /\ \A f \in File : disk'[f] = Outcome(f)
<1>1. Working /\ ~apply.disturbed /\ apply'.pc = "done" /\ apply'.result = "ok"
  BY DEF EndsUndisturbed, Working
<1>2. Undisturbed /\ ChangesBuilt /\ PreparedOnce
  BY <1>1, WorkFacts
<1>3. CASE /\ apply.pc = "stage" /\ UNCHANGED disk /\ apply.prepared = << >>
           /\ \E src \in AllSources : apply.todo = {src} /\ ~Writes(src)
  <2>1. PICK last \in AllSources : apply.todo = {last} /\ ~Writes(last)
    BY <1>3
  <2>2. Built = AllSources /\ Staged = AllSources \ {last} /\ Written = {}
    BY <1>3, <2>1 DEF Built, Staged, Past, Written
  <2>3. \A src \in AllSources : ~Writes(src)
    BY <1>2, <1>3, <2>1, <2>2 DEF PreparedOnce
  <2>4. \A f \in File : disk'[f] = apply.before[f]
    BY <1>2, <1>3, <2>2 DEF Undisturbed, DiskFollows
  <2>5. \A f \in File : Outcome(f) = apply.before[f]
    <3>1. TAKE f \in File
    <3>2. CASE f \in DOMAIN apply.changes
      <4>1. PICK src \in AllSources : f = Target(apply.plan, src)
        BY <1>2, <2>2, <3>2 DEF ChangesBuilt, TargetsOf
      <4>2. QED
        BY <1>1, <1>3, <2>3, <4>1, UnwrittenIsThere
    <3>3. QED
      BY <3>2 DEF Outcome
  <2>6. QED
    BY <1>1, <1>2, <1>3, <2>4, <2>5
<1>4. CASE Commit /\ apply.at = Len(apply.prepared)
  <2>1. apply.pc = "commit" /\ disk' = [disk EXCEPT ![Item.target] = apply.changes[Item.target]]
    BY <1>4 DEF Commit
  <2>2. DOMAIN apply.prepared = 1..apply.at /\ Built = AllSources /\ Staged = AllSources
    BY <1>4, <2>1, ItemFacts
  <2>3. SUFFICES ASSUME NEW f \in File
                 PROVE  disk'[f] = Outcome(f)
    BY <1>1, <1>2, <2>1
  <2>4. disk'[f] = IF \E i \in DOMAIN apply.prepared : apply.prepared[i].target = f
                     THEN apply.changes[f] ELSE apply.before[f]
    BY <1>1, <2>1, <2>2, CommittedDisk
  <2>5. CASE \E i \in DOMAIN apply.prepared : apply.prepared[i].target = f
    <3>1. PICK src \in AllSources : f = Target(apply.plan, src)
      BY <1>2, <2>2, <2>5 DEF PreparedOnce, PreparedFor
    <3>2. f \in DOMAIN apply.changes
      BY <1>2, <2>2, <3>1 DEF ChangesBuilt, TargetsOf
    <3>3. QED
      BY <2>4, <2>5, <3>2 DEF Outcome
  <2>6. CASE ~\E i \in DOMAIN apply.prepared : apply.prepared[i].target = f
    <3>1. CASE f \in DOMAIN apply.changes
      <4>1. PICK src \in AllSources : f = Target(apply.plan, src)
        BY <1>2, <2>2, <3>1 DEF ChangesBuilt, TargetsOf
      <4>2. ~Writes(src)
        BY <1>2, <2>2, <2>6, <4>1 DEF PreparedOnce
      <4>3. QED
        BY <1>1, <2>1, <2>4, <2>6, <4>1, <4>2, UnwrittenIsThere
    <3>2. CASE f \notin DOMAIN apply.changes
      BY <2>4, <2>6, <3>2 DEF Outcome
    <3>3. QED
      BY <3>1, <3>2
  <2>7. QED
    BY <2>5, <2>6
<1>5. QED
  BY <1>1, <1>3, <1>4, WaysToEnd

\* One that fails has changed none, or taken back what it had.
LEMMA EndsAsItBegan ==
  ASSUME ImportInv, ImportNext, NEW result \in {"io", "invalid", "changed"}, EndsUndisturbed(result)
  PROVE  disk' = apply.before
<1>1. Working /\ ~apply.disturbed /\ apply'.pc = "done" /\ apply'.result = result
  BY DEF EndsUndisturbed, Working
<1>2. Undisturbed /\ disk \in [File -> Content] /\ apply.before \in [File -> Content]
  BY <1>1, WorkFacts DEF Undisturbed
<1>3. CASE /\ UNCHANGED disk
           /\ \/ apply.pc \in {"build", "links", "verify", "stage"}
              \/ apply.pc = "commit" /\ apply.at = 1
  <2>1. Written = {}
    BY <1>3 DEF Written
  <2>2. \A f \in File : disk[f] = apply.before[f]
    BY <1>2, <2>1 DEF Undisturbed, DiskFollows
  <2>3. QED
    BY <1>2, <1>3, <2>2
<1>4. CASE Undo /\ apply.at = 1
  <2>1. /\ apply.pc = "undo"
        /\ disk' = [disk EXCEPT ![Item.target] = IF Item.new THEN NoFile ELSE Item.original]
    BY <1>4 DEF Undo
  <2>2. \A f \in File : disk'[f] = apply.before[f]
    BY <1>1, <1>4, <2>1, UndoneDisk
  <2>3. disk' \in [File -> Content]
    <3>1. (IF Item.new THEN NoFile ELSE Item.original) \in Content
      BY <2>1, ItemFacts DEF Content, PreparedRecord
    <3>2. QED
      BY <1>2, <2>1, <3>1, ItemFacts
  <2>4. QED
    BY <1>2, <2>2, <2>3
<1>5. QED
  BY <1>1, <1>3, <1>4, WaysToEnd

\* The value that is taken is the one that was wanted, unless both are the same.
LEMMA AcceptedIsWanted ==
  ASSUME ImportInv, Working, NEW o \in Occurrences(apply.plan), ~IsNew(apply.plan, o)
  PROVE  /\ o \in apply.accepted => Wanted(o)
         /\ Wanted(o) /\ o \notin apply.accepted =>
              Expected(apply.plan, o[1])[o[2]] = Incoming(apply.plan, o)
<1>1. apply.accepted = Expanded(apply.plan, apply.chosen)
  BY WorkFacts DEF PlanTaken
<1>2. ASSUME o \in apply.accepted
      PROVE  Wanted(o)
  BY <1>1, <1>2 DEF Expanded, LinksOf, Wanted
<1>3. ASSUME Wanted(o), o \notin apply.accepted
      PROVE  o \notin Conflicts(apply.plan)
  BY <1>1, <1>3 DEF Expanded, LinksOf, Wanted
<1>4. QED
  BY <1>2, <1>3 DEF Conflicts, IsConflict

\* What is built is what was shown.
LEMMA OutcomeAsShown ==
  ASSUME ImportInv, Working, Undisturbed, apply.pc \in {"stage", "commit"}, NEW f \in File
  PROVE  Outcome(f) = Shown(f)
<1> DEFINE p == apply.plan
<1>1. /\ p \in PlanRecord /\ DOMAIN p.entries = Sources(p) /\ Injective(p) /\ AllSources = Sources(p)
      /\ Built = AllSources /\ Verified = AllSources /\ DOMAIN apply.changes = TargetsOf(AllSources)
  BY WorkFacts DEF PlanTaken, StoredPlan, AllSources, Built, Verified, ChangesBuilt
<1>2. CASE \A src \in Sources(p) : Target(p, src) # f
  <2>1. f \notin DOMAIN apply.changes
    BY <1>1, <1>2 DEF TargetsOf
  <2>2. QED
    BY <1>2, <2>1 DEF Outcome, Shown
<1>3. CASE \E src \in Sources(p) : Target(p, src) = f
  <2> DEFINE src == CHOOSE s \in Sources(p) : Target(p, s) = f
             old == Expected(p, src)
             new == p.package[src]
             kept == IF old = NoFile THEN {} ELSE
                       { k \in Assigned(old) : k \notin Assigned(new) \/ ~Wanted(<<src, k>>) }
  <2>1. src \in Sources(p) /\ Target(p, src) = f
    BY <1>3
  <2>2. Shown(f) = [k \in Key |-> IF k \in kept THEN old[k] ELSE new[k]]
    BY <1>3 DEF Shown
  <2>3. Outcome(f) = Merged(p, src, old, apply.accepted) /\ Outcome(f) # NoFile
    <3>1. f \in DOMAIN apply.changes
      BY <1>1, <2>1 DEF TargetsOf
    <3>2. /\ apply.changes[f] = Merged(p, src, apply.before[f], apply.accepted)
          /\ apply.changes[f] # NoFile /\ apply.before[f] = old
      BY <1>1, <2>1 DEF Undisturbed, BuiltFromBefore, VerifiedBefore
    <3>3. QED
      BY <3>1, <3>2 DEF Outcome
  <2>4. src \in DOMAIN p.entries /\ src \in File /\ old \in Content /\ new \in Bytes
    BY <1>1, <2>1, EntryFacts
  <2> HIDE DEF src
  <2>5. CASE old = NoFile
    <3>1. Outcome(f) = new
      BY <2>3, <2>5 DEF Merged
    <3>2. Shown(f) = [k \in Key |-> new[k]]
      BY <2>2, <2>5
    <3>3. QED
      BY <2>4, <3>1, <3>2 DEF Bytes
  <2>6. CASE old # NoFile
    <3>1. old \in Bytes /\ Outcome(f) \in Bytes
      BY <1>1, <2>1, <2>3, <2>4, <2>6, MergedIs DEF Content
    <3>2. ASSUME NEW k \in Key
          PROVE  Outcome(f)[k] = IF k \in kept THEN old[k] ELSE new[k]
      <4> DEFINE o == <<src, k>>
      <4>1. o \in Occurrences(p) <=> k \in Assigned(new)
        BY <2>1, <2>4, OccurrencesAre
      <4>2. IsNew(p, o) <=> k \notin Assigned(old)
        BY DEF IsNew
      <4>3. /\ k \in kept => (k \in Assigned(old) /\ (k \notin Assigned(new) \/ ~Wanted(o)))
            /\ (k \in Assigned(old) /\ (k \notin Assigned(new) \/ ~Wanted(o))) => k \in kept
        BY <2>6
      <4>4. /\ k \notin Assigned(new) => new[k] = Absent
            /\ k \notin Assigned(old) => old[k] = Absent
        BY <2>4, <2>6, NoFileAssumption DEF Assigned
      <4>4a. Outcome(f)[k] = IF o \in Occurrences(p) /\ (IsNew(p, o) \/ o \in apply.accepted)
                             THEN new[k] ELSE old[k]
        BY <1>1, <2>1, <2>3, <2>4, <2>6, MergedThere
      <4>5. CASE k \in Assigned(new) /\ k \in Assigned(old)
        <5>1. /\ o \in apply.accepted => Wanted(o)
              /\ Wanted(o) /\ o \notin apply.accepted => old[k] = new[k]
          BY <1>1, <4>1, <4>2, <4>5, AcceptedIsWanted DEF Incoming
        <5>2. QED
          BY <4>1, <4>2, <4>3, <4>4a, <4>5, <5>1
      <4>6. QED
        BY <4>1, <4>2, <4>3, <4>4, <4>4a, <4>5
    <3> HIDE DEF kept
    <3>3. QED
      BY <2>2, <3>1, <3>2 DEF Bytes
  <2>7. QED
    BY <2>5, <2>6
<1>4. QED
  BY <1>2, <1>3

\* AppliedAsShown: whatever the user chooses and maps, and whatever others write before the apply, an
\* apply that nobody disturbs and that succeeds leaves every file as the preview showed it.
THEOREM PreviewIsKept == Spec => AppliedAsShown
<1> DEFINE AsShown == EndsUndisturbed("ok") => \A f \in File : disk'[f] = Shown(f)
<1>1. ASSUME ImportInv, [Next]_vars
      PROVE  [AsShown]_importVars
  <2>1. SUFFICES ASSUME ImportNext, EndsUndisturbed("ok")
                 PROVE  \A f \in File : disk'[f] = Shown(f)
    BY <1>1 DEF Next, vars, importVars, PlanPublished, BeginPlan, EndsUndisturbed
  <2>2. QED
    BY <1>1, <2>1, EndsWell, OutcomeAsShown
<1>2. QED
  BY <1>1, ImportInvariant, PTL DEF Spec, AppliedAsShown

\* FailedImportChangesNothing: whichever step fails, a refusal or an error that does not say that the
\* rollback was incomplete leaves every file as it was when the apply began.
THEOREM FailureLeavesFiles == Spec => FailedImportChangesNothing
<1> DEFINE Unchanged == (\E result \in {"io", "invalid", "changed"} : EndsUndisturbed(result))
                          => disk' = apply.before
<1>1. ASSUME ImportInv, [Next]_vars
      PROVE  [Unchanged]_importVars
  <2>1. SUFFICES ASSUME ImportNext, NEW result \in {"io", "invalid", "changed"}, EndsUndisturbed(result)
                 PROVE  disk' = apply.before
    BY <1>1 DEF Next, vars, importVars, PlanPublished, BeginPlan, EndsUndisturbed
  <2>2. QED
    BY <1>1, <2>1, EndsAsItBegan
<1>2. QED
  BY <1>1, ImportInvariant, PTL DEF Spec, FailedImportChangesNothing

\* ImportKeepsLinks: after an apply that succeeds the members of every link the plan was made with
\* agree, those outside the package among them.
THEOREM LinkedStaysOne == Spec => ImportKeepsLinks
<1> DEFINE Agree == EndsUndisturbed("ok") =>
              \A link \in apply.plan.links : \E v \in Value : \A f \in link.members :
                disk'[f] # NoFile /\ disk'[f][link.key] = v
<1>1. ASSUME ImportInv, [Next]_vars
      PROVE  [Agree]_importVars
  <2>1. SUFFICES ASSUME ImportNext, EndsUndisturbed("ok"), NEW link \in apply.plan.links
                 PROVE  \E v \in Value : \A f \in link.members :
                          disk'[f] # NoFile /\ disk'[f][link.key] = v
    BY <1>1 DEF Next, vars, importVars, PlanPublished, BeginPlan, EndsUndisturbed
  <2>2. /\ Working /\ Undisturbed /\ apply.pc \in {"stage", "commit"}
        /\ \A f \in File : disk'[f] = Outcome(f)
    BY <1>1, <2>1, EndsWell
  <2>3. PICK v \in Value : \A f \in link.members :
               link.key \in Assigned(Outcome(f)) /\ Outcome(f)[link.key] = v
    BY <2>1, <2>2 DEF Undisturbed, LinksChecked
  <2>4. link.members \subseteq File
    <3>1. apply.plan.links \subseteq Link
      BY <1>1, <2>2, WorkFacts DEF PlanTaken, StoredPlan, PlanRecord
    <3>2. QED
      BY <2>1, <3>1 DEF Link
  <2>5. \A f \in link.members : Outcome(f) # NoFile
    BY <2>3 DEF Assigned
  <2>6. QED
    BY <2>2, <2>3, <2>4, <2>5
<1>2. QED
  BY <1>1, ImportInvariant, PTL DEF Spec, ImportKeepsLinks
=============================================================================
