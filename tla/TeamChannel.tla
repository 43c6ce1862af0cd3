---------------------------- MODULE TeamChannel ----------------------------
(***************************************************************************)
(* A folder team channel: a folder on a NAS or in a sync client that the   *)
(* desktop apps of several members use without any server (crates/env-team *)
(* and runtime/team_channels.rs), and the export that a member publishes   *)
(* there (env-core/src/export.rs).                                         *)
(*                                                                         *)
(* The folder holds a descriptor with the id of the channel and a          *)
(* directory of packages.  Nobody locks it: members connect, publish and   *)
(* fetch at the same time.  Each file comes into being by a rename that    *)
(* does not replace (persist_noclobber).  At the path another folder may   *)
(* be mounted at any moment, with what it holds from before; a command     *)
(* goes on with the path and not with the folder it has opened.            *)
(***************************************************************************)
EXTENDS TeamPackage

CONSTANTS
  Member,      \* desktop apps that know the path
  Publisher,   \* those whose project is published from
  Folder,      \* what may be mounted there
  ChannelId, PackageId, NoId,
  Earlier,     \* packages a folder may hold from before
  Origin,      \* what a publisher's project may hold: its files and links
  MaxTorn      \* bound: writes of others to a publisher's project while it is exported

ASSUME PublisherAssumption == Publisher \subseteq Member
ASSUME IdAssumption == NoId \notin ChannelId \cup PackageId
ASSUME OriginAssumption == \A o \in Origin : o.files \in [File -> Content] /\ o.links \subseteq Link

ASSUME EarlierAssumption ==
  \A package \in Earlier : DOMAIN package \subseteq File /\ package \in [DOMAIN package -> Bytes]

VARIABLES
  folders,   \* folders[d]: the descriptor's channel id, the packages and whether their directory is there
  mounted,   \* which of them is at the path
  member,    \* member[m]: the registrations of the project, and the command under way
  origin     \* the project of each publisher

folderVars == <<folders, mounted>>
channelVars == <<folderVars, member, origin>>

\* opened: the folder that was there when a publish opened its channel; seen: what the project has
\* been since.  Both are only for the properties.
Idle == [pc |-> "idle", id |-> NoId, todo |-> {}, wanted |-> Nothing, package |-> Nothing, torn |-> 0,
         opened |-> {}, seen |-> {}]

\* A folder nobody has connected to may be a channel's whose descriptor is gone.
ChannelInit ==
  /\ folders \in [Folder ->
       { [descriptor |-> NoId, directory |-> p # Nothing, packages |-> p] :
           p \in {Nothing} \cup [PackageId -> Earlier] }]
  /\ mounted \in Folder
  /\ member = [m \in Member |-> [registered |-> {}, call |-> Idle]]
  /\ origin \in [Publisher -> Origin]

In(m, pc) == member[m].call.pc = pc
Goes(m, call) == member' = [member EXCEPT ![m].call = call]
Returns(m) == Goes(m, Idle)

----------------------------------------------------------------------------
AtPath == folders[mounted]

\* connect_folder_transport, when the folder has a descriptor: its id is what is opened.
ConnectExisting(m) ==
  /\ In(m, "idle")
  /\ AtPath.descriptor # NoId
  /\ Goes(m, [Idle EXCEPT !.pc = "open", !.id = AtPath.descriptor])
  /\ UNCHANGED <<folderVars, origin>>

\* connect_folder_transport, when it has none: the directory of packages is made if it is not there.
ConnectNew(m) ==
  /\ In(m, "idle")
  /\ AtPath.descriptor = NoId
  /\ folders' = [folders EXCEPT ![mounted].directory = TRUE]
  /\ Goes(m, [Idle EXCEPT !.pc = "describe"])
  /\ UNCHANGED <<mounted, origin>>

\* unique_id: an id nobody has drawn yet.
Fresh == ChannelId \ ({ folders[d].descriptor : d \in Folder }
                        \cup UNION { member[m].registered \cup {member[m].call.id} : m \in Member })

\* Mutant: the descriptor of another is replaced.
DescribeReplacing(m) ==
  /\ In(m, "describe")
  /\ \E id \in Fresh :
       /\ folders' = [folders EXCEPT ![mounted].descriptor = id]
       /\ Goes(m, [Idle EXCEPT !.pc = "open", !.id = id])
  /\ UNCHANGED <<mounted, origin>>

\* persist_descriptor: a member that finds another's descriptor there fails.
Describe(m) ==
  /\ In(m, "describe")
  /\ IF AtPath.descriptor = NoId
       THEN \E id \in Fresh :
              /\ folders' = [folders EXCEPT ![mounted].descriptor = id]
              /\ Goes(m, [Idle EXCEPT !.pc = "open", !.id = id])
       ELSE Returns(m) /\ UNCHANGED folders
  /\ UNCHANGED <<mounted, origin>>

\* FolderTransport::open, load_channel with the expected id.
Opens(id) == AtPath.descriptor = id /\ AtPath.directory

Open(m) ==
  /\ In(m, "open")
  /\ IF Opens(member[m].call.id)
       THEN Goes(m, [member[m].call EXCEPT !.pc = "register"])
       ELSE Returns(m)
  /\ UNCHANGED <<folderVars, origin>>

\* connect_folder_team_channel: a registration of its own for every channel id.
Register(m) ==
  /\ In(m, "register")
  /\ member' = [member EXCEPT ![m] = [registered |-> @.registered \cup {@.call.id}, call |-> Idle]]
  /\ UNCHANGED <<folderVars, origin>>

\* remove_team_channel
Unregister(m) ==
  /\ In(m, "idle")
  /\ \E id \in member[m].registered : member' = [member EXCEPT ![m].registered = @ \ {id}]
  /\ UNCHANGED <<folderVars, origin>>

----------------------------------------------------------------------------
\* What is exported: whole files, or some keys of some files.
Whole == {}   \* no selection of keys
Selection(files) ==
  {[f \in { g \in File : files[g] # NoFile } |-> Whole]}
    \cup { s \in UNION { [S -> SUBSET Key \ {{}}] : S \in SUBSET File } : DOMAIN s # {} }

Selects(s, f, key) == f \in DOMAIN s /\ s[f] # Whole /\ key \in s[f]

\* resolve_selection: managed files, keys they assign, and a link with all its members or none.
Resolved(o, s) ==
  /\ \A f \in DOMAIN s : /\ o.files[f] # NoFile
                          /\ s[f] # Whole => s[f] \subseteq Assigned(o.files[f])
  /\ \A link \in o.links :
       (\E f \in link.members : Selects(s, f, link.key))
         => \A f \in link.members : Selects(s, f, link.key)

\* publish_team_channel: the channel is opened, the manifest loaded, the selection resolved.
BeginPublish(m) ==
  /\ In(m, "idle") /\ m \in Publisher
  /\ \E id \in member[m].registered, s \in Selection(origin[m].files) :
       /\ Opens(id)
       /\ Resolved(origin[m], s)
       /\ Goes(m, [Idle EXCEPT !.pc = IF DOMAIN s = {} THEN "persist" ELSE "export", !.id = id,
                               !.todo = DOMAIN s, !.wanted = s, !.opened = {mounted},
                               !.seen = {origin[m]}])
  /\ UNCHANGED <<folderVars, origin>>

\* What goes into the package of a file with this content.
Taken(content, keys) == [k \in Key |-> IF keys = Whole \/ k \in keys THEN content[k] ELSE Absent]

Exportable(content, keys) == content # NoFile /\ keys \subseteq Assigned(content)

\* Mutant: a file that is gone by now is passed over.
ExportFileIfThere(m) ==
  /\ In(m, "export")
  /\ \E f \in Earliest(member[m].call.todo) :
       LET call == member[m].call
           now == origin[m].files[f]
       IN  Goes(m, [call EXCEPT
             !.package = IF Exportable(now, call.wanted[f]) THEN With(@, f, Taken(now, call.wanted[f])) ELSE @,
             !.todo = @ \ {f}, !.pc = IF call.todo = {f} THEN "persist" ELSE @])
  /\ UNCHANGED <<folderVars, origin>>

\* write_zip, one file: read again, it has to be there and assign every selected key.
ExportFile(m) ==
  /\ In(m, "export")
  /\ \E f \in Earliest(member[m].call.todo) :
       LET call == member[m].call
           now == origin[m].files[f]
       IN  IF Exportable(now, call.wanted[f])
             THEN Goes(m, [call EXCEPT
                    !.package = With(@, f, Taken(now, call.wanted[f])),
                    !.todo = @ \ {f}, !.pc = IF call.todo = {f} THEN "persist" ELSE @])
             ELSE Returns(m)
  /\ UNCHANGED <<folderVars, origin>>

\* FolderTransport::publish: the package is staged in the directory of the folder that is mounted by
\* now, under a name nobody lists, and renamed to an id that is a hash of path, time, process and
\* counter; members on two hosts may draw the same one.  The descriptor is not read again.
Persist(m) ==
  /\ In(m, "persist")
  /\ \E id \in PackageId :
       IF id \in DOMAIN AtPath.packages \/ ~AtPath.directory
         THEN UNCHANGED folders
         ELSE folders' = [folders EXCEPT ![mounted].packages = With(@, id, member[m].call.package)]
  /\ Returns(m)
  /\ UNCHANGED <<mounted, origin>>

\* Any step of a command fails, or its process dies: what is staged is never listed.
CommandFails(m) == ~In(m, "idle") /\ Returns(m) /\ UNCHANGED <<folderVars, origin>>

----------------------------------------------------------------------------
\* Others write the publisher's files while they are being exported.
OriginChanges(m) ==
  /\ In(m, "export")
  /\ member[m].call.torn < MaxTorn
  /\ \E o \in Origin :
       /\ o.links = origin[m].links
       /\ origin' = [origin EXCEPT ![m] = o]
       /\ Goes(m, [member[m].call EXCEPT !.torn = @ + 1, !.seen = @ \cup {o}])
  /\ UNCHANGED folderVars

\* Another folder is mounted at the path, at any moment.
Remount ==
  /\ \E d \in Folder \ {mounted} : mounted' = d
  /\ UNCHANGED <<folders, member, origin>>

ChannelStep(m) ==
  \/ ConnectExisting(m) \/ ConnectNew(m) \/ Describe(m) \/ Open(m) \/ Register(m)
  \/ Unregister(m) \/ CommandFails(m)
PublishStep(m) == BeginPublish(m) \/ ExportFile(m) \/ Persist(m) \/ OriginChanges(m)

ChannelNext == Remount \/ \E m \in Member : ChannelStep(m) \/ (m \in Publisher /\ PublishStep(m))

----------------------------------------------------------------------------
\* What m is about to publish is all that was selected: every file, each with the chosen keys as the
\* project has held them at some moment of this export.
IsWhole(m, package) ==
  LET call == member[m].call
  IN  /\ DOMAIN package = DOMAIN call.wanted
      /\ \A f \in DOMAIN package : \E o \in call.seen :
           /\ Exportable(o.files[f], call.wanted[f])
           /\ package[f] = Taken(o.files[f], call.wanted[f])

\* "exchange immutable encrypted packages" (README.md:74): a package that can be listed is never
\* changed, completed or removed later, and whole when it appears although the project is written
\* while it is exported; if the folder that was opened is still the one that is mounted it appears
\* in the channel it was published for.
PackagesAreWhole ==
  [][ \A d \in Folder :
        LET old == folders[d].packages
            new == folders'[d].packages
        IN  /\ \A id \in DOMAIN old : id \in DOMAIN new /\ new[id] = old[id]
            /\ \A id \in DOMAIN new \ DOMAIN old : \E m \in Publisher :
                 /\ In(m, "persist") /\ IsWhole(m, new[id])
                 /\ d \in member[m].call.opened => folders[d].descriptor = member[m].call.id
    ]_channelVars

\* A channel that a project has registered is there: some folder describes it, however the members
\* that found the folder empty went on at the same time, and whatever was mounted meanwhile.
RegisteredChannelsExist ==
  \A m \in Member : member[m].registered \subseteq { folders[d].descriptor : d \in Folder }
=============================================================================
