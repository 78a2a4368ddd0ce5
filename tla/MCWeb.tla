------------------------------- MODULE MCWeb -------------------------------
(***************************************************************************)
(* The pages of the web client, one at a time, each in the settings below; *)
(* and, as one more part, the store of the files with its encryption.      *)
(* part is the page that is open, setting what it is tried with; neither   *)
(* changes.  The page's own variables go by their names in its module, the *)
(* others are NONE: two pages that have a variable of one name never meet, *)
(* and the states of a run are those of the settings, one after the other. *)
(***************************************************************************)
EXTENDS Naturals, Sequences, FiniteSets, TLC

CONSTANT NONE

VARIABLES part, setting,
  at, name, path, query, list, found, seq, loads, selected, clip, dialog, asks, task, faults, past,
  whole, grants, loaded, known, clicked, member, invite, lapsed, extra, opened, shown, ticked, access,
  buy, page, mount, identity, cookie, trusted, tasks, popup, entered, outs, tab, live, unasked, unused,
  server, made, app, kept, win, password, resets, sessions, signIns, revoking, email, changes, asking,
  signed, stars, ui, where, side, told, figures, loading, firstLoad, preset, link, item, rows, prows,
  busy, pBusy, modal, off, open, meta, pw, unlocked, entries, crumbs, working, failed, proven, stored,
  wrong, uploading, done, loops, env, me, other, rec, p, visit, shownAt, status, error, resent, voids,
  doc, subj, recs, next, discarded, typed, flds, sentAs, full, saved, up, starts, file, used, blobs,
  alloc, usage, granted, listed, spent, chosen, copies, untold, docs, sess, eng, swept, row, blob, dek,
  cache, on, proc

filesVars == <<name, path, found, seq, selected, clip, asks, faults>>
pickerVars == <<whole, loaded, known, clicked>>
seatsVars == <<member, invite, lapsed, extra, opened, ticked, access, buy>>
signinVars == <<mount, identity, cookie, trusted, popup, entered, outs>>
idleVars == <<unasked, unused>>
factorVars == <<server, app, kept, win>>
linksVars == <<password, resets, signIns, revoking, email, changes, asking, signed>>
listsVars == <<stars, ui>>
binVars == <<where, side, told>>
homeVars == <<figures, loading, firstLoad, preset>>
sharedVars == <<link, item, rows, prows, busy, pBusy, off>>
linkVars == <<meta, entries, crumbs, working, failed, proven>>
portalVars == <<wrong, uploading, done, loops>>
ceremonyVars == <<me, other, rec, visit, shownAt>>
dashboardVars == <<error, resent, voids>>
setupVars == <<doc, subj, recs, discarded, typed>>
fieldsVars == <<flds, sentAs>>
clientVars == <<full, saved, up, starts>>
previewVars == <<file, used, blobs>>
spaceVars == <<alloc, usage, granted, listed, spent>>
copyVars == <<chosen, copies, untold>>
officeVars == <<docs, sess, eng, swept>>
vaultVars == <<row, blob, dek, cache, on, proc>>
commonVars == <<at, query, list, loads, dialog, task, past, grants, shown, page, tasks, tab, live,
  made, sessions, modal, open, pw, unlocked, stored, env, p, status, next>>
webVars == <<part, setting, commonVars, filesVars, pickerVars, seatsVars, signinVars, idleVars,
  factorVars, linksVars, listsVars, binVars, homeVars, sharedVars, linkVars, portalVars, ceremonyVars,
  dashboardVars, setupVars, fieldsVars, clientVars, previewVars, spaceVars, copyVars, officeVars,
  vaultVars>>

In(place, n) == [at |-> place, name |-> n]
Root == [ws |-> "w", folder |-> "root"]
Folder == [ws |-> "w", folder |-> "d"]
Tree == [root |-> {"a", "b"}, a |-> {"c", "d"}, b |-> {"e", "f"}, c |-> {"h"}, d |-> {}, e |-> {"g"}, f |-> {}, g |-> {}, h |-> {}]
Listed == [a |-> <<"v", "w">>, b |-> <<"u">>]
Within == [v |-> {"d"}, w |-> {}, u |-> {}, d |-> {"e"}, e |-> {}]
Upwards == [v |-> <<>>, w |-> <<>>, u |-> <<>>, d |-> <<"d">>, e |-> <<"d", "e">>]
----------------------------------------------------------------------------
(* The settings.                                                           *)

FilesBrowse == INSTANCE FilesPage WITH Workspaces <- {"w", "y"}, Folders <- {"d"}, Files <- {"f"},
  Dirs <- {"x"}, Protected <- {"d"}, Home <- "d" :> "w",
  Stored <- "f" :> In("d", 0) @@ "x" :> In("w", 0), Tasks <- {1, 2},
  Commands <- {"trash", "bulk", "switch", "back", "open"}, MaxLoads <- 2, MaxName <- 1, MaxFaults <- 1
FilesUpload == INSTANCE FilesPage WITH Workspaces <- {"w", "y"}, Folders <- {"d"},
  Files <- {"f", "g"}, Dirs <- {"x"}, Protected <- {}, Home <- "d" :> "w",
  Stored <- "f" :> In("w", 0), Tasks <- {1, 2}, Commands <- {"upload", "tree", "open"}, MaxLoads <- 2,
  MaxName <- 2, MaxFaults <- 1
FilesPrompt == INSTANCE FilesPage WITH Workspaces <- {"w", "y"}, Folders <- {},
  Files <- {"f", "g", "h"}, Dirs <- {}, Protected <- {}, Home <- <<>>, Stored <- "f" :> In("w", 0),
  Tasks <- {1}, Commands <- {"upload", "switch"}, MaxLoads <- 1, MaxName <- 3, MaxFaults <- 1
FilesMove == INSTANCE FilesPage WITH Workspaces <- {"w"}, Folders <- {"d"}, Files <- {"f", "g", "h"},
  Dirs <- {}, Protected <- {}, Home <- "d" :> "w",
  Stored <- "f" :> In("w", 0) @@ "g" :> In("w", 1) @@ "h" :> In("d", 0), Tasks <- {1},
  Commands <- {"move"}, MaxLoads <- 1, MaxName <- 3, MaxFaults <- 0
FilesCopy == INSTANCE FilesPage WITH Workspaces <- {"w", "y"}, Folders <- {}, Files <- {"f", "g"},
  Dirs <- {}, Protected <- {}, Home <- <<>>, Stored <- "f" :> In("w", 0), Tasks <- {1},
  Commands <- {"copy", "paste", "rename", "bulk", "folder", "search"}, MaxLoads <- 1, MaxName <- 2,
  MaxFaults <- 1
PickerClicks == INSTANCE AccessPicker WITH Spaces <- {"w", "x"}, Nodes <- {"a", "b", "c", "d", "f"},
  Parent <- [a |-> "w", b |-> "w", c |-> "a", d |-> "a", f |-> "x"]
SeatsInvites == INSTANCE Seats WITH Users <- {"u"}, Ids <- {1, 2}, Spaces <- {}, Member <- {},
  Access <- [u |-> {}], Included <- 3, Tasks <- {1, 2}, Others <- {2},
  Commands <- {"invite", "resend", "lapse"}, MaxLoads <- 1, MaxOpens <- 0, MaxFaults <- 0, MaxQty <- 1
SeatsCap == INSTANCE Seats WITH Users <- {"u", "v"}, Ids <- {1, 2}, Spaces <- {}, Member <- {"u"},
  Access <- [u |-> {}, v |-> {}], Included <- 2, Tasks <- {1}, Others <- {},
  Commands <- {"invite", "accept", "seats"}, MaxLoads <- 1, MaxOpens <- 0, MaxFaults <- 0, MaxQty <- 1
SeatsRows == INSTANCE Seats WITH Users <- {"u", "v"}, Ids <- {1}, Spaces <- {}, Member <- {"u"},
  Access <- [u |-> {}, v |-> {}], Included <- 4, Tasks <- {1}, Others <- {},
  Commands <- {"invite", "bulk", "status", "accept", "delete"}, MaxLoads <- 1, MaxOpens <- 0,
  MaxFaults <- 0, MaxQty <- 1
SeatsAccess == INSTANCE Seats WITH Users <- {"m", "n"}, Ids <- {}, Spaces <- {"w", "x"},
  Member <- {"m", "n"}, Access <- [m |-> {"w"}, n |-> {"x"}], Included <- 3, Tasks <- {1, 2},
  Others <- {}, Commands <- {"access"}, MaxLoads <- 1, MaxOpens <- 1, MaxFaults <- 0, MaxQty <- 1
SignInPage == INSTANCE SignIn WITH Users <- {"ann", "bob"}, Totp <- {"ann"},
  Passkeys <- {"ann", "bob"}, Several <- {"ann"}, Patient <- TRUE, ProbeFirst <- TRUE, MaxMounts <- 4,
  MaxLogouts <- 1, Providers <- {"google"}
SignInHasty == INSTANCE SignIn WITH Users <- {"ann", "bob"}, Totp <- {"ann"}, Passkeys <- {"bob"},
  Several <- {"ann"}, Patient <- FALSE, ProbeFirst <- FALSE, MaxMounts <- 1, MaxLogouts <- 0,
  Providers <- {"google"}
IdleTabs == INSTANCE Idle WITH Tabs <- {"left", "right"}, Window <- 1
FactorWindow == INSTANCE SecondFactor WITH Windows <- {"one"}, MaxSecrets <- 3, MaxKeys <- 1,
  Faults <- FALSE, Hasty <- FALSE
FactorFaults == INSTANCE SecondFactor WITH Windows <- {"one"}, MaxSecrets <- 2, MaxKeys <- 1,
  Faults <- TRUE, Hasty <- FALSE
LinksPassword == INSTANCE MailLinks WITH Users <- {"ann"}, Addresses <- {"home"},
  First <- [ann |-> "home"], Tabs <- {"t1", "t2"}, MaxResets <- 2, MaxChanges <- 0, MaxSignIns <- 0,
  Crashes <- TRUE
LinksSignIn == INSTANCE MailLinks WITH Users <- {"ann"}, Addresses <- {"home"},
  First <- [ann |-> "home"], Tabs <- {"t1"}, MaxResets <- 1, MaxChanges <- 0, MaxSignIns <- 1,
  Crashes <- TRUE
LinksAddress == INSTANCE MailLinks WITH Users <- {"ann", "bob"},
  Addresses <- {"home", "work", "other"}, First <- [ann |-> "home", bob |-> "work"], Tabs <- {"t1"},
  MaxResets <- 0, MaxChanges <- 2, MaxSignIns <- 0, Crashes <- FALSE
ListsLog == INSTANCE PagedLists WITH Which <- "activity", N <- 3, PageSize <- 2, Odd <- {1},
  Match <- {1, 2}, MaxTasks <- 3, Patient <- FALSE
ListsSearch == INSTANCE PagedLists WITH Which <- "starred", N <- 2, PageSize <- 2, Odd <- {1},
  Match <- {1, 2}, MaxTasks <- 1, Patient <- FALSE
ListsStarred == INSTANCE PagedLists WITH Which <- "starred", N <- 2, PageSize <- 1, Odd <- {1},
  Match <- {1, 2}, MaxTasks <- 2, Patient <- TRUE
ListsRecent == INSTANCE PagedLists WITH Which <- "recent", N <- 2, PageSize <- 1, Odd <- {1},
  Match <- {1, 2}, MaxTasks <- 2, Patient <- TRUE
BinPages == INSTANCE TrashView WITH Items <- {"a", "b"}, Hidden <- {"a"},
  Routes <- {"trash", "files", "home"}, Faults <- FALSE, MaxTasks <- 4, Patient <- TRUE
BinSide == INSTANCE TrashView WITH Items <- {"a", "b"}, Hidden <- {"a"}, Routes <- {"trash", "files"},
  Faults <- FALSE, MaxTasks <- 4, Patient <- TRUE
BinBulk == INSTANCE TrashView WITH Items <- {"a", "b"}, Hidden <- {"a", "b"}, Routes <- {"trash"},
  Faults <- TRUE, MaxTasks <- 2, Patient <- FALSE
HomeFigures == INSTANCE HomeStats WITH PresetRange <- [today |-> <<3, 3>>, month |-> <<1, 3>>],
  Days <- {1, 2, 3}, MaxTasks <- 2, Ordered <- TRUE
SharedRows == INSTANCE SharedPage WITH Shares <- {"s1"}, Portals <- {"pp"}, Item <- [s1 |-> "doc"],
  People <- {"x"}, Offers <- {"rows", "rename", "trash", "disable"}, Faults <- FALSE, Patient <- TRUE,
  MaxTasks <- 1
SharedModal == INSTANCE SharedPage WITH Shares <- {"s1", "s2"}, Portals <- {"pp"},
  Item <- [s1 |-> "doc", s2 |-> "pics"], People <- {"x"}, Offers <- {"share", "portal", "edit"},
  Faults <- TRUE, Patient <- FALSE, MaxTasks <- 1
SharedBusy == INSTANCE SharedPage WITH Shares <- {"s1"}, Portals <- {"pp"}, Item <- [s1 |-> "doc"],
  People <- {"x"}, Offers <- {"rows"}, Faults <- TRUE, Patient <- FALSE, MaxTasks <- 2
LinkFolder == INSTANCE ShareLanding WITH Root <- "root", Inside <- Tree, Protected <- TRUE,
  Faults <- FALSE, Patient <- TRUE, MaxTasks <- 2, MaxDepth <- 3
LinkGate == INSTANCE ShareLanding WITH Root <- "root", Inside <- [root |-> {"a"}, a |-> {}],
  Protected <- TRUE, Faults <- TRUE, Patient <- FALSE, MaxTasks <- 2, MaxDepth <- 1
PortalPatient == INSTANCE PortalLanding WITH Files <- {"f", "g"}, Protected <- TRUE, Faults <- FALSE,
  Patient <- TRUE, MaxDone <- 3
PortalSent == INSTANCE PortalLanding WITH Files <- {"f", "g"}, Protected <- TRUE, Faults <- TRUE,
  Patient <- FALSE, MaxDone <- 1
CeremonyPatient == INSTANCE SignCeremony WITH
  Kind <- [s |-> "sig", a |-> "attachment", d |-> "decline", t |-> "text"], Required <- {"s", "a"},
  Files <- {"f"}, Preview <- FALSE, Patient <- TRUE, Faults <- FALSE, Others <- TRUE, MaxTasks <- 1,
  MaxVisits <- 2
CeremonyOutcome == INSTANCE SignCeremony WITH Kind <- [s |-> "sig", t |-> "text", d |-> "decline"],
  Required <- {"s"}, Files <- {}, Preview <- FALSE, Patient <- TRUE, Faults <- TRUE, Others <- TRUE,
  MaxTasks <- 1, MaxVisits <- 1
CeremonyTabs == INSTANCE SignCeremony WITH Kind <- [s |-> "sig"], Required <- {"s"}, Files <- {},
  Preview <- FALSE, Patient <- FALSE, Faults <- TRUE, Others <- FALSE, MaxTasks <- 2, MaxVisits <- 2
CeremonyChoices == INSTANCE SignCeremony WITH
  Kind <- [s |-> "sig", r1 |-> "radio", r2 |-> "radio", k |-> "approve", q |-> "formula"],
  Required <- {"r1", "k"}, Files <- {}, Preview <- FALSE, Patient <- TRUE, Faults <- TRUE,
  Others <- FALSE, MaxTasks <- 1, MaxVisits <- 1
CeremonyPreview == INSTANCE SignCeremony WITH
  Kind <- [s |-> "sig", a |-> "attachment", d |-> "decline", t |-> "text"], Required <- {"s", "a"},
  Files <- {"f"}, Preview <- TRUE, Patient <- FALSE, Faults <- FALSE, Others <- FALSE, MaxTasks <- 1,
  MaxVisits <- 2
DashboardQuiet == INSTANCE SignHome WITH Envelopes <- {1, 2, 3}, PageSize <- 1, Others <- FALSE,
  Patient <- TRUE, Faults <- FALSE, MaxTasks <- 1
DashboardBusy == INSTANCE SignHome WITH Envelopes <- {1, 2}, PageSize <- 1, Others <- TRUE,
  Patient <- TRUE, Faults <- FALSE, MaxTasks <- 1
SetupPatient == INSTANCE SignSetup WITH Persons <- {"a"}, Docs <- {"d"}, Patient <- TRUE,
  Faults <- FALSE, Dialog <- TRUE, MaxTasks <- 1, MaxId <- 3
SetupFaults == INSTANCE SignSetup WITH Persons <- {"a"}, Docs <- {"d", "e"}, Patient <- TRUE,
  Faults <- TRUE, Dialog <- FALSE, MaxTasks <- 1, MaxId <- 2
FieldsPatient == INSTANCE SignFields WITH Recipients <- {"a"}, Positions <- {1, 2}, Patient <- TRUE,
  Copies <- FALSE, Faults <- FALSE, MaxTasks <- 1, MaxId <- 2
FieldsTwo == INSTANCE SignFields WITH Recipients <- {"a", "b"}, Positions <- {1, 2}, Patient <- TRUE,
  Copies <- FALSE, Faults <- TRUE, MaxTasks <- 1, MaxId <- 1
ClientUploads == INSTANCE UploadClient WITH Pages <- {1}, Places <- {Root, Folder},
  Batches <- {<<"small", "large">>, <<"large", "small">>}, Chunks <- 2, MaxRetries <- 1,
  Chunked <- TRUE, Faults <- {"chunk", "other", "lost"}, Full <- TRUE, MaxStarts <- 2
ClientTabs == INSTANCE UploadClient WITH Pages <- {1, 2}, Places <- {Root}, Batches <- {<<"large">>},
  Chunks <- 2, MaxRetries <- 1, Chunked <- TRUE, Faults <- {"chunk"}, Full <- FALSE, MaxStarts <- 2
ClientSingle == INSTANCE UploadClient WITH Pages <- {1}, Places <- {Root},
  Batches <- {<<"large">>, <<"small", "large">>}, Chunks <- 1, MaxRetries <- 1, Chunked <- FALSE,
  Faults <- {"other", "lost"}, Full <- TRUE, MaxStarts <- 2
PreviewPatient == INSTANCE FilePreview WITH Texts <- {1, 2, 3}, Valid <- {1, 2}, StartInEdit <- TRUE,
  ByModified <- FALSE, Others <- {}, Patient <- TRUE, Faults <- TRUE, MaxTasks <- 1, MaxVer <- 4
PreviewTurns == INSTANCE FilePreview WITH Texts <- {1, 2}, Valid <- {1, 2}, StartInEdit <- FALSE,
  ByModified <- TRUE, Others <- {"save", "rename", "trash"}, Patient <- TRUE, Faults <- FALSE,
  MaxTasks <- 1, MaxVer <- 3
SpaceQuota == INSTANCE SpaceModal WITH Spaces <- {"a", "b"}, Members <- 1, Sizes <- {1, 2},
  Total <- 2, Limit <- 2, MaxTasks <- 1, Faults <- {"access"}, MaxFaults <- 1, Others <- "never",
  Patient <- TRUE
SpaceOthers == INSTANCE SpaceModal WITH Spaces <- {"a", "b"}, Members <- 0, Sizes <- {1, 2},
  Total <- 2, Limit <- 2, MaxTasks <- 1, Faults <- {"list", "save"}, MaxFaults <- 1,
  Others <- "between", Patient <- TRUE
SpaceRoster == INSTANCE SpaceModal WITH Spaces <- {"a"}, Members <- 2, Sizes <- {1}, Total <- 1,
  Limit <- 1, MaxTasks <- 1, Faults <- {"access"}, MaxFaults <- 2, Others <- "never", Patient <- TRUE
CopyDropped == INSTANCE CopyModal WITH Items <- {"x"}, SpacesOf <- Listed, Inside <- Within,
  Path <- Upwards, Over <- "drop", MaxTasks <- 2, Faults <- {"spaces", "folders"}, Patient <- TRUE
CopySelected == INSTANCE CopyModal WITH Items <- {"x", "y"}, SpacesOf <- Listed, Inside <- Within,
  Path <- Upwards, Over <- "selection", MaxTasks <- 2, Faults <- {}, Patient <- TRUE
CopyRetried == INSTANCE CopyModal WITH Items <- {"x"}, SpacesOf <- [a |-> <<"v", "w">>],
  Inside <- Within, Path <- Upwards, Over <- "drop", MaxTasks <- 2, Faults <- {"copy", "folders"},
  Patient <- TRUE
OfficeAlone == INSTANCE OfficeEditor WITH Users <- {1}, MaxDocs <- 2, MaxSess <- 2, MaxEdits <- 2,
  IdleSaves <- FALSE, Prompt <- TRUE, Patient <- TRUE, Opens <- {}, Ends <- {}, Faults <- FALSE
OfficeSwept == INSTANCE OfficeEditor WITH Users <- {1}, MaxDocs <- 1, MaxSess <- 2, MaxEdits <- 1,
  IdleSaves <- TRUE, Prompt <- TRUE, Patient <- TRUE, Opens <- {1}, Ends <- {"expire", "logout"},
  Faults <- FALSE
OfficePair == INSTANCE OfficeEditor WITH Users <- {1, 2}, MaxDocs <- 1, MaxSess <- 2, MaxEdits <- 0,
  IdleSaves <- FALSE, Prompt <- TRUE, Patient <- TRUE, Opens <- {1}, Ends <- {"trash"}, Faults <- FALSE
OfficeHasty == INSTANCE OfficeEditor WITH Users <- {1}, MaxDocs <- 1, MaxSess <- 2, MaxEdits <- 1,
  IdleSaves <- FALSE, Prompt <- TRUE, Patient <- FALSE, Opens <- {1}, Ends <- {"trash"},
  Faults <- FALSE
OfficeFaults == INSTANCE OfficeEditor WITH Users <- {1}, MaxDocs <- 1, MaxSess <- 2, MaxEdits <- 1,
  IdleSaves <- FALSE, Prompt <- TRUE, Patient <- TRUE, Opens <- {1}, Ends <- {}, Faults <- TRUE
VaultRestarts == INSTANCE EncryptionAtRest WITH Files <- {1, 2}, Legacy <- {1}, Broken <- {},
  Servers <- {"s"}, Migrators <- {"m"}, Limit <- 1, Commands <- {"upload", "overwrite", "purge"},
  Faults <- TRUE, Toggles <- FALSE, MaxBlobs <- 2, MaxKeys <- 2
VaultRaces == INSTANCE EncryptionAtRest WITH Files <- {1, 2}, Legacy <- {1}, Broken <- {},
  Servers <- {"s", "t"}, Migrators <- {"m"}, Limit <- 1, Commands <- {"upload", "overwrite"},
  Faults <- FALSE, Toggles <- FALSE, MaxBlobs <- 2, MaxKeys <- 3
VaultTwice == INSTANCE EncryptionAtRest WITH Files <- {1, 2}, Legacy <- {1}, Broken <- {},
  Servers <- {"s"}, Migrators <- {"m", "n"}, Limit <- 1, Commands <- {"overwrite", "purge"},
  Faults <- FALSE, Toggles <- FALSE, MaxBlobs <- 3, MaxKeys <- 2
VaultToggled == INSTANCE EncryptionAtRest WITH Files <- {1, 2}, Legacy <- {1}, Broken <- {},
  Servers <- {"s"}, Migrators <- {"m"}, Limit <- 1, Commands <- {"upload", "overwrite"},
  Faults <- TRUE, Toggles <- TRUE, MaxBlobs <- 2, MaxKeys <- 2
VaultBatch == INSTANCE EncryptionAtRest WITH Files <- {1, 2, 3}, Legacy <- {1, 2, 3}, Broken <- {1},
  Servers <- {"s"}, Migrators <- {"m"}, Limit <- 2, Commands <- {"overwrite"}, Faults <- FALSE,
  Toggles <- FALSE, MaxBlobs <- 4, MaxKeys <- 2

ASSUME SettingsAssumption ==
  /\ FilesBrowse!PageAssumption /\ FilesUpload!PageAssumption /\ FilesPrompt!PageAssumption
  /\ FilesMove!PageAssumption /\ FilesCopy!PageAssumption /\ PickerClicks!PickerAssumption
  /\ SeatsInvites!SeatsAssumption /\ SeatsCap!SeatsAssumption /\ SeatsRows!SeatsAssumption
  /\ SeatsAccess!SeatsAssumption /\ SignInPage!UsersAssumption /\ SignInHasty!UsersAssumption
  /\ LinksPassword!LinksAssumption /\ LinksSignIn!LinksAssumption /\ LinksAddress!LinksAssumption
  /\ IdleTabs!WindowAssumption /\ ListsLog!PagedAssumption /\ ListsSearch!PagedAssumption
  /\ ListsStarred!PagedAssumption /\ ListsRecent!PagedAssumption /\ BinPages!ViewAssumption
  /\ BinSide!ViewAssumption /\ BinBulk!ViewAssumption /\ HomeFigures!StatsAssumption
  /\ SharedRows!SharedAssumption /\ SharedModal!SharedAssumption /\ SharedBusy!SharedAssumption
  /\ LinkFolder!LandingAssumption /\ LinkGate!LandingAssumption /\ CeremonyPatient!CeremonyAssumption
  /\ CeremonyOutcome!CeremonyAssumption /\ CeremonyTabs!CeremonyAssumption
  /\ CeremonyChoices!CeremonyAssumption /\ CeremonyPreview!CeremonyAssumption
  /\ DashboardQuiet!HomeAssumption /\ DashboardBusy!HomeAssumption /\ SetupPatient!SetupAssumption
  /\ SetupFaults!SetupAssumption /\ FieldsPatient!FieldsAssumption /\ FieldsTwo!FieldsAssumption
  /\ ClientUploads!UploadAssumption /\ ClientTabs!UploadAssumption /\ ClientSingle!UploadAssumption
  /\ PreviewPatient!PreviewAssumption /\ PreviewTurns!PreviewAssumption /\ SpaceQuota!SpaceAssumption
  /\ SpaceOthers!SpaceAssumption /\ SpaceRoster!SpaceAssumption /\ CopyDropped!CopyAssumption
  /\ CopySelected!CopyAssumption /\ CopyRetried!CopyAssumption /\ OfficeAlone!OfficeAssumption
  /\ OfficeSwept!OfficeAssumption /\ OfficePair!OfficeAssumption /\ OfficeHasty!OfficeAssumption
  /\ OfficeFaults!OfficeAssumption /\ VaultRestarts!EncryptionAssumption
  /\ VaultRaces!EncryptionAssumption /\ VaultTwice!EncryptionAssumption
  /\ VaultToggled!EncryptionAssumption /\ VaultBatch!EncryptionAssumption
----------------------------------------------------------------------------
(* A page begins as its module says, with nothing of the others.           *)

Closed ==
  /\ IF part = "files" \/ part = "signin" \/ part = "bin" THEN TRUE ELSE at = NONE
  /\ IF part = "files" THEN TRUE ELSE name = NONE /\ path = NONE /\ found = NONE /\ seq = NONE /\
        selected = NONE /\ clip = NONE /\ asks = NONE /\ faults = NONE
  /\ IF part = "files" \/ part = "dashboard" THEN TRUE ELSE query = NONE /\ list = NONE
  /\ IF part = "files" \/ part = "seats" THEN TRUE ELSE loads = NONE /\ task = NONE /\ past = NONE
  /\ IF part = "files" \/ part = "links" \/ part = "bin" \/ part = "dashboard" \/ part = "copy" THEN TRUE
        ELSE dialog = NONE
  /\ IF part = "picker" THEN TRUE ELSE whole = NONE /\ loaded = NONE /\ known = NONE /\ clicked = NONE
  /\ IF part = "picker" \/ part = "seats" THEN TRUE ELSE grants = NONE
  /\ IF part = "seats" THEN TRUE ELSE member = NONE /\ invite = NONE /\ lapsed = NONE /\ extra = NONE /\
        opened = NONE /\ ticked = NONE /\ access = NONE /\ buy = NONE
  /\ IF part = "seats" \/ part = "home" THEN TRUE ELSE shown = NONE
  /\ IF part = "signin" \/ part = "bin" \/ part = "dashboard" \/ part = "office" THEN TRUE ELSE page = NONE
  /\ IF part = "signin" THEN TRUE ELSE mount = NONE /\ identity = NONE /\ cookie = NONE /\
        trusted = NONE /\ popup = NONE /\ entered = NONE /\ outs = NONE
  /\ IF part = "signin" \/ part = "factor" \/ part = "lists" \/ part = "bin" \/ part = "home" \/
        part = "shared" \/ part = "link" \/ part = "ceremony" \/ part = "dashboard" \/
        part = "setup" \/ part = "fields" \/ part = "preview" \/ part = "space" \/ part = "copy" THEN
        TRUE ELSE tasks = NONE
  /\ IF part = "idle" \/ part = "links" THEN TRUE ELSE tab = NONE
  /\ IF part = "idle" \/ part = "lists" THEN TRUE ELSE live = NONE
  /\ IF part = "idle" THEN TRUE ELSE unasked = NONE /\ unused = NONE
  /\ IF part = "factor" THEN TRUE ELSE server = NONE /\ app = NONE /\ kept = NONE /\ win = NONE
  /\ IF part = "factor" \/ part = "vault" THEN TRUE ELSE made = NONE
  /\ IF part = "links" THEN TRUE ELSE password = NONE /\ resets = NONE /\ signIns = NONE /\
        revoking = NONE /\ email = NONE /\ changes = NONE /\ asking = NONE /\ signed = NONE
  /\ IF part = "links" \/ part = "client" THEN TRUE ELSE sessions = NONE
  /\ IF part = "lists" THEN TRUE ELSE stars = NONE /\ ui = NONE
  /\ IF part = "bin" THEN TRUE ELSE where = NONE /\ side = NONE /\ told = NONE
  /\ IF part = "home" THEN TRUE ELSE figures = NONE /\ loading = NONE /\ firstLoad = NONE /\ preset = NONE
  /\ IF part = "shared" THEN TRUE ELSE link = NONE /\ item = NONE /\ rows = NONE /\ prows = NONE /\
        busy = NONE /\ pBusy = NONE /\ off = NONE
  /\ IF part = "shared" \/ part = "space" THEN TRUE ELSE modal = NONE
  /\ IF part = "link" \/ part = "portal" \/ part = "copy" THEN TRUE ELSE open = NONE
  /\ IF part = "link" THEN TRUE ELSE meta = NONE /\ entries = NONE /\ crumbs = NONE /\ working = NONE /\
        failed = NONE /\ proven = NONE
  /\ IF part = "link" \/ part = "portal" THEN TRUE ELSE pw = NONE /\ unlocked = NONE
  /\ IF part = "portal" \/ part = "client" THEN TRUE ELSE stored = NONE
  /\ IF part = "portal" THEN TRUE ELSE wrong = NONE /\ uploading = NONE /\ done = NONE /\ loops = NONE
  /\ IF part = "ceremony" \/ part = "setup" THEN TRUE ELSE env = NONE
  /\ IF part = "ceremony" THEN TRUE ELSE me = NONE /\ other = NONE /\ rec = NONE /\ visit = NONE /\
        shownAt = NONE
  /\ IF part = "ceremony" \/ part = "setup" \/ part = "fields" \/ part = "preview" THEN TRUE ELSE p = NONE
  /\ IF part = "dashboard" \/ part = "fields" THEN TRUE ELSE status = NONE
  /\ IF part = "dashboard" THEN TRUE ELSE error = NONE /\ resent = NONE /\ voids = NONE
  /\ IF part = "setup" THEN TRUE ELSE doc = NONE /\ subj = NONE /\ recs = NONE /\ discarded = NONE /\
        typed = NONE
  /\ IF part = "setup" \/ part = "fields" \/ part = "preview" THEN TRUE ELSE next = NONE
  /\ IF part = "fields" THEN TRUE ELSE flds = NONE /\ sentAs = NONE
  /\ IF part = "client" THEN TRUE ELSE full = NONE /\ saved = NONE /\ up = NONE /\ starts = NONE
  /\ IF part = "preview" THEN TRUE ELSE file = NONE /\ used = NONE /\ blobs = NONE
  /\ IF part = "space" THEN TRUE ELSE alloc = NONE /\ usage = NONE /\ granted = NONE /\ listed = NONE /\
        spent = NONE
  /\ IF part = "copy" THEN TRUE ELSE chosen = NONE /\ copies = NONE /\ untold = NONE
  /\ IF part = "office" THEN TRUE ELSE docs = NONE /\ sess = NONE /\ eng = NONE /\ swept = NONE
  /\ IF part = "vault" THEN TRUE ELSE row = NONE /\ blob = NONE /\ dek = NONE /\ cache = NONE /\
        on = NONE /\ proc = NONE

Init == /\ \/ part = "files" /\ setting = "FilesBrowse" /\ FilesBrowse!Init
           \/ part = "files" /\ setting = "FilesUpload" /\ FilesUpload!Init
           \/ part = "files" /\ setting = "FilesPrompt" /\ FilesPrompt!Init
           \/ part = "files" /\ setting = "FilesMove" /\ FilesMove!Init
           \/ part = "files" /\ setting = "FilesCopy" /\ FilesCopy!Init
           \/ part = "picker" /\ setting = "PickerClicks" /\ PickerClicks!Init
           \/ part = "seats" /\ setting = "SeatsInvites" /\ SeatsInvites!Init
           \/ part = "seats" /\ setting = "SeatsCap" /\ SeatsCap!Init
           \/ part = "seats" /\ setting = "SeatsRows" /\ SeatsRows!Init
           \/ part = "seats" /\ setting = "SeatsAccess" /\ SeatsAccess!Init
           \/ part = "signin" /\ setting = "SignInPage" /\ SignInPage!Init
           \/ part = "signin" /\ setting = "SignInHasty" /\ SignInHasty!Init
           \/ part = "idle" /\ setting = "IdleTabs" /\ IdleTabs!Init
           \/ part = "factor" /\ setting = "FactorWindow" /\ FactorWindow!Init
           \/ part = "factor" /\ setting = "FactorFaults" /\ FactorFaults!Init
           \/ part = "links" /\ setting = "LinksPassword" /\ LinksPassword!Init
           \/ part = "links" /\ setting = "LinksSignIn" /\ LinksSignIn!Init
           \/ part = "links" /\ setting = "LinksAddress" /\ LinksAddress!Init
           \/ part = "lists" /\ setting = "ListsLog" /\ ListsLog!Init
           \/ part = "lists" /\ setting = "ListsSearch" /\ ListsSearch!Init
           \/ part = "lists" /\ setting = "ListsStarred" /\ ListsStarred!Init
           \/ part = "lists" /\ setting = "ListsRecent" /\ ListsRecent!Init
           \/ part = "bin" /\ setting = "BinPages" /\ BinPages!Init
           \/ part = "bin" /\ setting = "BinSide" /\ BinSide!Init
           \/ part = "bin" /\ setting = "BinBulk" /\ BinBulk!Init
           \/ part = "home" /\ setting = "HomeFigures" /\ HomeFigures!Init
           \/ part = "shared" /\ setting = "SharedRows" /\ SharedRows!Init
           \/ part = "shared" /\ setting = "SharedModal" /\ SharedModal!Init
           \/ part = "shared" /\ setting = "SharedBusy" /\ SharedBusy!Init
           \/ part = "link" /\ setting = "LinkFolder" /\ LinkFolder!Init
           \/ part = "link" /\ setting = "LinkGate" /\ LinkGate!Init
           \/ part = "portal" /\ setting = "PortalPatient" /\ PortalPatient!Init
           \/ part = "portal" /\ setting = "PortalSent" /\ PortalSent!Init
           \/ part = "ceremony" /\ setting = "CeremonyPatient" /\ CeremonyPatient!Init
           \/ part = "ceremony" /\ setting = "CeremonyOutcome" /\ CeremonyOutcome!Init
           \/ part = "ceremony" /\ setting = "CeremonyTabs" /\ CeremonyTabs!Init
           \/ part = "ceremony" /\ setting = "CeremonyChoices" /\ CeremonyChoices!Init
           \/ part = "ceremony" /\ setting = "CeremonyPreview" /\ CeremonyPreview!Init
           \/ part = "dashboard" /\ setting = "DashboardQuiet" /\ DashboardQuiet!Init
           \/ part = "dashboard" /\ setting = "DashboardBusy" /\ DashboardBusy!Init
           \/ part = "setup" /\ setting = "SetupPatient" /\ SetupPatient!Init
           \/ part = "setup" /\ setting = "SetupFaults" /\ SetupFaults!Init
           \/ part = "fields" /\ setting = "FieldsPatient" /\ FieldsPatient!Init
           \/ part = "fields" /\ setting = "FieldsTwo" /\ FieldsTwo!Init
           \/ part = "client" /\ setting = "ClientUploads" /\ ClientUploads!Init
           \/ part = "client" /\ setting = "ClientTabs" /\ ClientTabs!Init
           \/ part = "client" /\ setting = "ClientSingle" /\ ClientSingle!Init
           \/ part = "preview" /\ setting = "PreviewPatient" /\ PreviewPatient!Init
           \/ part = "preview" /\ setting = "PreviewTurns" /\ PreviewTurns!Init
           \/ part = "space" /\ setting = "SpaceQuota" /\ SpaceQuota!Init
           \/ part = "space" /\ setting = "SpaceOthers" /\ SpaceOthers!Init
           \/ part = "space" /\ setting = "SpaceRoster" /\ SpaceRoster!Init
           \/ part = "copy" /\ setting = "CopyDropped" /\ CopyDropped!Init
           \/ part = "copy" /\ setting = "CopySelected" /\ CopySelected!Init
           \/ part = "copy" /\ setting = "CopyRetried" /\ CopyRetried!Init
           \/ part = "office" /\ setting = "OfficeAlone" /\ OfficeAlone!Init
           \/ part = "office" /\ setting = "OfficeSwept" /\ OfficeSwept!Init
           \/ part = "office" /\ setting = "OfficePair" /\ OfficePair!Init
           \/ part = "office" /\ setting = "OfficeHasty" /\ OfficeHasty!Init
           \/ part = "office" /\ setting = "OfficeFaults" /\ OfficeFaults!Init
           \/ part = "vault" /\ setting = "VaultRestarts" /\ VaultRestarts!Init
           \/ part = "vault" /\ setting = "VaultRaces" /\ VaultRaces!Init
           \/ part = "vault" /\ setting = "VaultTwice" /\ VaultTwice!Init
           \/ part = "vault" /\ setting = "VaultToggled" /\ VaultToggled!Init
           \/ part = "vault" /\ setting = "VaultBatch" /\ VaultBatch!Init
        /\ Closed

(* A step is a step of the open page.                                      *)

Rest ==
  /\ UNCHANGED <<part, setting>>
  /\ IF part = "files" \/ part = "signin" \/ part = "bin" THEN TRUE ELSE UNCHANGED at
  /\ IF part = "files" THEN TRUE ELSE UNCHANGED filesVars
  /\ IF part = "files" \/ part = "dashboard" THEN TRUE ELSE UNCHANGED <<query, list>>
  /\ IF part = "files" \/ part = "seats" THEN TRUE ELSE UNCHANGED <<loads, task, past>>
  /\ IF part = "files" \/ part = "links" \/ part = "bin" \/ part = "dashboard" \/ part = "copy" THEN TRUE
        ELSE UNCHANGED dialog
  /\ IF part = "picker" THEN TRUE ELSE UNCHANGED pickerVars
  /\ IF part = "picker" \/ part = "seats" THEN TRUE ELSE UNCHANGED grants
  /\ IF part = "seats" THEN TRUE ELSE UNCHANGED seatsVars
  /\ IF part = "seats" \/ part = "home" THEN TRUE ELSE UNCHANGED shown
  /\ IF part = "signin" \/ part = "bin" \/ part = "dashboard" \/ part = "office" THEN TRUE ELSE
        UNCHANGED page
  /\ IF part = "signin" THEN TRUE ELSE UNCHANGED signinVars
  /\ IF part = "signin" \/ part = "factor" \/ part = "lists" \/ part = "bin" \/ part = "home" \/
        part = "shared" \/ part = "link" \/ part = "ceremony" \/ part = "dashboard" \/
        part = "setup" \/ part = "fields" \/ part = "preview" \/ part = "space" \/ part = "copy" THEN
        TRUE ELSE UNCHANGED tasks
  /\ IF part = "idle" \/ part = "links" THEN TRUE ELSE UNCHANGED tab
  /\ IF part = "idle" \/ part = "lists" THEN TRUE ELSE UNCHANGED live
  /\ IF part = "idle" THEN TRUE ELSE UNCHANGED idleVars
  /\ IF part = "factor" THEN TRUE ELSE UNCHANGED factorVars
  /\ IF part = "factor" \/ part = "vault" THEN TRUE ELSE UNCHANGED made
  /\ IF part = "links" THEN TRUE ELSE UNCHANGED linksVars
  /\ IF part = "links" \/ part = "client" THEN TRUE ELSE UNCHANGED sessions
  /\ IF part = "lists" THEN TRUE ELSE UNCHANGED listsVars
  /\ IF part = "bin" THEN TRUE ELSE UNCHANGED binVars
  /\ IF part = "home" THEN TRUE ELSE UNCHANGED homeVars
  /\ IF part = "shared" THEN TRUE ELSE UNCHANGED sharedVars
  /\ IF part = "shared" \/ part = "space" THEN TRUE ELSE UNCHANGED modal
  /\ IF part = "link" \/ part = "portal" \/ part = "copy" THEN TRUE ELSE UNCHANGED open
  /\ IF part = "link" THEN TRUE ELSE UNCHANGED linkVars
  /\ IF part = "link" \/ part = "portal" THEN TRUE ELSE UNCHANGED <<pw, unlocked>>
  /\ IF part = "portal" \/ part = "client" THEN TRUE ELSE UNCHANGED stored
  /\ IF part = "portal" THEN TRUE ELSE UNCHANGED portalVars
  /\ IF part = "ceremony" \/ part = "setup" THEN TRUE ELSE UNCHANGED env
  /\ IF part = "ceremony" THEN TRUE ELSE UNCHANGED ceremonyVars
  /\ IF part = "ceremony" \/ part = "setup" \/ part = "fields" \/ part = "preview" THEN TRUE ELSE
        UNCHANGED p
  /\ IF part = "dashboard" \/ part = "fields" THEN TRUE ELSE UNCHANGED status
  /\ IF part = "dashboard" THEN TRUE ELSE UNCHANGED dashboardVars
  /\ IF part = "setup" THEN TRUE ELSE UNCHANGED setupVars
  /\ IF part = "setup" \/ part = "fields" \/ part = "preview" THEN TRUE ELSE UNCHANGED next
  /\ IF part = "fields" THEN TRUE ELSE UNCHANGED fieldsVars
  /\ IF part = "client" THEN TRUE ELSE UNCHANGED clientVars
  /\ IF part = "preview" THEN TRUE ELSE UNCHANGED previewVars
  /\ IF part = "space" THEN TRUE ELSE UNCHANGED spaceVars
  /\ IF part = "copy" THEN TRUE ELSE UNCHANGED copyVars
  /\ IF part = "office" THEN TRUE ELSE UNCHANGED officeVars
  /\ IF part = "vault" THEN TRUE ELSE UNCHANGED vaultVars

Files == /\ part = "files"
         /\ \/ setting = "FilesBrowse" /\ FilesBrowse!Next
            \/ setting = "FilesUpload" /\ FilesUpload!Next
            \/ setting = "FilesPrompt" /\ FilesPrompt!Next
            \/ setting = "FilesMove" /\ FilesMove!Next
            \/ setting = "FilesCopy" /\ FilesCopy!Next
         /\ Rest
Picker == part = "picker" /\ PickerClicks!Next /\ Rest
Seats == /\ part = "seats"
         /\ \/ setting = "SeatsInvites" /\ SeatsInvites!Next
            \/ setting = "SeatsCap" /\ SeatsCap!Next
            \/ setting = "SeatsRows" /\ SeatsRows!Next
            \/ setting = "SeatsAccess" /\ SeatsAccess!Next
         /\ Rest
SignIn == /\ part = "signin"
          /\ \/ setting = "SignInPage" /\ SignInPage!Next
             \/ setting = "SignInHasty" /\ SignInHasty!Next
          /\ Rest
Idle == part = "idle" /\ IdleTabs!Next /\ Rest
Factor == /\ part = "factor"
          /\ \/ setting = "FactorWindow" /\ FactorWindow!Next
             \/ setting = "FactorFaults" /\ FactorFaults!Next
          /\ Rest
Links == /\ part = "links"
         /\ \/ setting = "LinksPassword" /\ LinksPassword!Next
            \/ setting = "LinksSignIn" /\ LinksSignIn!Next
            \/ setting = "LinksAddress" /\ LinksAddress!Next
         /\ Rest
Lists == /\ part = "lists"
         /\ \/ setting = "ListsLog" /\ ListsLog!Next
            \/ setting = "ListsSearch" /\ ListsSearch!Next
            \/ setting = "ListsStarred" /\ ListsStarred!Next
            \/ setting = "ListsRecent" /\ ListsRecent!Next
         /\ Rest
Bin == /\ part = "bin"
       /\ \/ setting = "BinPages" /\ BinPages!Next
          \/ setting = "BinSide" /\ BinSide!Next
          \/ setting = "BinBulk" /\ BinBulk!Next
       /\ Rest
Home == part = "home" /\ HomeFigures!Next /\ Rest
Shared == /\ part = "shared"
          /\ \/ setting = "SharedRows" /\ SharedRows!Next
             \/ setting = "SharedModal" /\ SharedModal!Next
             \/ setting = "SharedBusy" /\ SharedBusy!Next
          /\ Rest
Link == /\ part = "link"
        /\ \/ setting = "LinkFolder" /\ LinkFolder!Next
           \/ setting = "LinkGate" /\ LinkGate!Next
        /\ Rest
Portal == /\ part = "portal"
          /\ \/ setting = "PortalPatient" /\ PortalPatient!Next
             \/ setting = "PortalSent" /\ PortalSent!Next
          /\ Rest
Ceremony == /\ part = "ceremony"
            /\ \/ setting = "CeremonyPatient" /\ CeremonyPatient!Next
               \/ setting = "CeremonyOutcome" /\ CeremonyOutcome!Next
               \/ setting = "CeremonyTabs" /\ CeremonyTabs!Next
               \/ setting = "CeremonyChoices" /\ CeremonyChoices!Next
               \/ setting = "CeremonyPreview" /\ CeremonyPreview!Next
            /\ Rest
Dashboard == /\ part = "dashboard"
             /\ \/ setting = "DashboardQuiet" /\ DashboardQuiet!Next
                \/ setting = "DashboardBusy" /\ DashboardBusy!Next
             /\ Rest
Setup == /\ part = "setup"
         /\ \/ setting = "SetupPatient" /\ SetupPatient!Next
            \/ setting = "SetupFaults" /\ SetupFaults!Next
         /\ Rest
Fields == /\ part = "fields"
          /\ \/ setting = "FieldsPatient" /\ FieldsPatient!Next
             \/ setting = "FieldsTwo" /\ FieldsTwo!Next
          /\ Rest
Client == /\ part = "client"
          /\ \/ setting = "ClientUploads" /\ ClientUploads!Next
             \/ setting = "ClientTabs" /\ ClientTabs!Next
             \/ setting = "ClientSingle" /\ ClientSingle!Next
          /\ Rest
Preview == /\ part = "preview"
           /\ \/ setting = "PreviewPatient" /\ PreviewPatient!Next
              \/ setting = "PreviewTurns" /\ PreviewTurns!Next
           /\ Rest
Space == /\ part = "space"
         /\ \/ setting = "SpaceQuota" /\ SpaceQuota!Next
            \/ setting = "SpaceOthers" /\ SpaceOthers!Next
            \/ setting = "SpaceRoster" /\ SpaceRoster!Next
         /\ Rest
Copy == /\ part = "copy"
        /\ \/ setting = "CopyDropped" /\ CopyDropped!Next
           \/ setting = "CopySelected" /\ CopySelected!Next
           \/ setting = "CopyRetried" /\ CopyRetried!Next
        /\ Rest
Office == /\ part = "office"
          /\ \/ setting = "OfficeAlone" /\ OfficeAlone!Next
             \/ setting = "OfficeSwept" /\ OfficeSwept!Next
             \/ setting = "OfficePair" /\ OfficePair!Next
             \/ setting = "OfficeHasty" /\ OfficeHasty!Next
             \/ setting = "OfficeFaults" /\ OfficeFaults!Next
          /\ Rest
Vault == /\ part = "vault"
         /\ \/ setting = "VaultRestarts" /\ VaultRestarts!Next
            \/ setting = "VaultRaces" /\ VaultRaces!Next
            \/ setting = "VaultTwice" /\ VaultTwice!Next
            \/ setting = "VaultToggled" /\ VaultToggled!Next
            \/ setting = "VaultBatch" /\ VaultBatch!Next
         /\ Rest

Next == Files \/ Picker \/ Seats \/ SignIn \/ Idle \/ Factor \/ Links \/ Lists \/ Bin \/ Home \/ Shared
        \/ Link \/ Portal \/ Ceremony \/ Dashboard \/ Setup \/ Fields \/ Client \/ Preview \/ Space
        \/ Copy \/ Office \/ Vault

Spec == Init /\ [][Next]_webVars
----------------------------------------------------------------------------
(* What must hold.  Of two tabs, two answers or two users the settings      *)
(* leave out what the README tells apart as promises not kept.              *)

\* Every page holds what it may hold, and sends what the service takes.
WebTypeOK ==
  /\ setting = "FilesBrowse" => FilesBrowse!TypeOK
  /\ setting = "FilesUpload" => FilesUpload!TypeOK
  /\ setting = "FilesPrompt" => FilesPrompt!TypeOK
  /\ setting = "FilesMove" => FilesMove!TypeOK
  /\ setting = "FilesCopy" => FilesCopy!TypeOK
  /\ setting = "PickerClicks" => PickerClicks!TypeOK
  /\ setting = "SeatsInvites" => SeatsInvites!TypeOK
  /\ setting = "SeatsCap" => SeatsCap!TypeOK
  /\ setting = "SeatsRows" => SeatsRows!TypeOK
  /\ setting = "SeatsAccess" => SeatsAccess!TypeOK
  /\ setting = "SignInPage" => SignInPage!TypeOK
  /\ setting = "SignInHasty" => SignInHasty!TypeOK
  /\ setting = "IdleTabs" => IdleTabs!TypeOK
  /\ setting = "FactorWindow" => FactorWindow!TypeOK
  /\ setting = "FactorFaults" => FactorFaults!TypeOK
  /\ setting = "LinksPassword" => LinksPassword!TypeOK
  /\ setting = "LinksSignIn" => LinksSignIn!TypeOK
  /\ setting = "LinksAddress" => LinksAddress!TypeOK
  /\ setting = "ListsLog" => ListsLog!TypeOK
  /\ setting = "ListsSearch" => ListsSearch!TypeOK
  /\ setting = "ListsStarred" => ListsStarred!TypeOK
  /\ setting = "ListsRecent" => ListsRecent!TypeOK
  /\ setting = "BinPages" => BinPages!TypeOK
  /\ setting = "BinSide" => BinSide!TypeOK
  /\ setting = "BinBulk" => BinBulk!TypeOK
  /\ setting = "HomeFigures" => HomeFigures!TypeOK
  /\ setting = "SharedRows" => SharedRows!TypeOK
  /\ setting = "SharedModal" => SharedModal!TypeOK
  /\ setting = "SharedBusy" => SharedBusy!TypeOK
  /\ setting = "LinkFolder" => LinkFolder!TypeOK
  /\ setting = "LinkGate" => LinkGate!TypeOK
  /\ setting = "PortalPatient" => PortalPatient!TypeOK
  /\ setting = "PortalSent" => PortalSent!TypeOK
  /\ setting = "CeremonyPatient" => CeremonyPatient!TypeOK
  /\ setting = "CeremonyOutcome" => CeremonyOutcome!TypeOK
  /\ setting = "CeremonyTabs" => CeremonyTabs!TypeOK
  /\ setting = "CeremonyChoices" => CeremonyChoices!TypeOK
  /\ setting = "CeremonyPreview" => CeremonyPreview!TypeOK
  /\ setting = "DashboardQuiet" => DashboardQuiet!TypeOK
  /\ setting = "DashboardBusy" => DashboardBusy!TypeOK
  /\ setting = "SetupPatient" => SetupPatient!TypeOK
  /\ setting = "SetupFaults" => SetupFaults!TypeOK
  /\ setting = "FieldsPatient" => FieldsPatient!TypeOK
  /\ setting = "FieldsTwo" => FieldsTwo!TypeOK
  /\ setting = "ClientUploads" => ClientUploads!TypeOK
  /\ setting = "ClientTabs" => ClientTabs!TypeOK
  /\ setting = "ClientSingle" => ClientSingle!TypeOK
  /\ setting = "PreviewPatient" => PreviewPatient!TypeOK
  /\ setting = "PreviewTurns" => PreviewTurns!TypeOK
  /\ setting = "SpaceQuota" => SpaceQuota!TypeOK
  /\ setting = "SpaceOthers" => SpaceOthers!TypeOK
  /\ setting = "SpaceRoster" => SpaceRoster!TypeOK
  /\ setting = "CopyDropped" => CopyDropped!TypeOK
  /\ setting = "CopySelected" => CopySelected!TypeOK
  /\ setting = "CopyRetried" => CopyRetried!TypeOK
  /\ setting = "OfficeAlone" => OfficeAlone!TypeOK
  /\ setting = "OfficeSwept" => OfficeSwept!TypeOK
  /\ setting = "OfficePair" => OfficePair!TypeOK
  /\ setting = "OfficeHasty" => OfficeHasty!TypeOK
  /\ setting = "OfficeFaults" => OfficeFaults!TypeOK
  /\ setting = "VaultRestarts" => VaultRestarts!TypeOK
  /\ setting = "VaultRaces" => VaultRaces!TypeOK
  /\ setting = "VaultTwice" => VaultTwice!TypeOK
  /\ setting = "VaultToggled" => VaultToggled!TypeOK
  /\ setting = "VaultBatch" => VaultBatch!TypeOK

\* With nothing on its way a page lists what the service has: the browser,
\* Starred and Recent, the trash, Shared, the envelopes, the members' invites.
ListsTrue ==
  /\ setting = "FilesBrowse" => FilesBrowse!Fresh
  /\ setting = "FilesUpload" => FilesUpload!Fresh
  /\ setting = "FilesMove" => FilesMove!Fresh
  /\ setting = "FilesCopy" => FilesCopy!Fresh
  /\ setting = "ListsStarred" => ListsStarred!ListTrue
  /\ setting = "ListsRecent" => ListsRecent!StarsShown
  /\ setting = "BinPages" => BinPages!ListTrue /\ BinPages!FilesTrue
  /\ setting = "BinSide" => BinSide!BadgeTrue
  /\ setting = "SharedRows" => SharedRows!ListTrue
  /\ setting = "DashboardQuiet" => DashboardQuiet!ListTrue
  /\ setting = "DashboardBusy" => DashboardBusy!NoEmptyPage
  /\ setting = "SeatsRows" => SeatsRows!Refetched
  /\ setting = "PreviewPatient" => PreviewPatient!ViewTrue

\* What is shown answers what was asked last: the page, the search, the range
\* of days, the folder of a link, the users of a dialog, the item shared.
AnswersFit ==
  /\ setting = "ListsLog" => ListsLog!ShownAsked
  /\ setting = "ListsSearch" => ListsSearch!OneSearch
  /\ part = "home" => HomeFigures!StatsFit /\ HomeFigures!CustomUndone
  /\ setting = "LinkFolder" => LinkFolder!EntriesFitOrFailed /\ LinkFolder!PathNests
  /\ setting = "SeatsAccess" => SeatsAccess!PrefillShown
  /\ setting = "SharedModal" => SharedModal!LinkOfModal

\* A file sent is in the folder it was dropped on, once, under a name of its
\* own, and a clash of names is put to the user.
FilesArrive ==
  /\ setting = "FilesUpload" => FilesUpload!Delivered
  /\ setting = "FilesPrompt" => FilesPrompt!ClashAsked /\ FilesPrompt!Delivered
  /\ setting = "FilesMove" => FilesMove!NamesDistinct
  /\ setting = "FilesCopy" => FilesCopy!NamesDistinct
  /\ setting = "ClientUploads" => ClientUploads!ToldStored /\ ClientUploads!Dropped
  /\ setting = "ClientTabs" => ClientTabs!ToldStored
  /\ setting = "ClientSingle" => ClientSingle!ToldStored
  /\ setting = "PortalPatient" => PortalPatient!UploadingTrue
  /\ setting = "PortalSent" => PortalSent!SentIsStored
  /\ setting = "CopyDropped" => CopyDropped!LandsAsSaid /\ CopyDropped!ResultTrue /\ CopyDropped!OneCopy /\ CopyDropped!Told
  /\ setting = "CopySelected" => CopySelected!LandsAsSaid /\ CopySelected!OneCopy
  /\ setting = "CopyRetried" => CopyRetried!LandsAsSaid /\ CopyRetried!ResultTrue /\ CopyRetried!Told

\* With no save under way, the used bytes and the stored blobs are those of the
\* files, although another save takes its turn between two of the user's; the
\* sizes of the workspaces fit the plan, and what they store fits them.  What
\* is stored can be decrypted, and a file marked encrypted is.
BytesExact ==
  /\ setting = "PreviewTurns" => PreviewTurns!UsedExact /\ PreviewTurns!BlobsExact
  /\ setting = "SpaceQuota" => SpaceQuota!PoolHeld /\ SpaceQuota!UsageHeld /\ SpaceQuota!SaveFits
  /\ setting = "SpaceOthers" => SpaceOthers!PoolHeld /\ SpaceOthers!UsageHeld
  /\ setting = "VaultRestarts" => VaultRestarts!Decryptable /\ VaultRestarts!MarkTrue
  /\ setting = "VaultRaces" => VaultRaces!Decryptable /\ VaultRaces!MarkTrue
  /\ setting = "VaultTwice" => VaultTwice!Decryptable /\ VaultTwice!MarkTrue
  /\ setting = "VaultToggled" => VaultToggled!Decryptable

\* What goes out for signing is what the sender's page showed.
PreparedAsShown ==
  /\ setting = "SetupPatient" => SetupPatient!NoTwins /\ SetupPatient!RowsFit /\ SetupPatient!DiscardsBlank
  /\ setting = "SetupFaults" => SetupFaults!DocFits
  /\ setting = "FieldsPatient" => FieldsPatient!Settled /\ FieldsPatient!SentAsShown
  /\ setting = "FieldsTwo" => FieldsTwo!EverySigner
  /\ setting = "DashboardQuiet" => DashboardQuiet!VoidKeeps

\* What is on record for a signer is what the page showed when Finish was
\* pressed, and the last screen tells what the service holds.
SignedAsShown ==
  /\ setting = "CeremonyPatient" => CeremonyPatient!SignedAsShown
  /\ setting = "CeremonyOutcome" => CeremonyOutcome!OutcomeTrue
  /\ setting = "CeremonyTabs" => CeremonyTabs!SignedAsShown
  /\ setting = "CeremonyChoices" => CeremonyChoices!SignedAsShown

\* Nobody gets in beyond what was given: grants, gates, seats and links.
AccessHeld ==
  /\ part = "picker" => PickerClicks!WholeXorFolders
  /\ setting = "LinkGate" => LinkGate!GateHolds
  /\ setting = "PortalPatient" => PortalPatient!GateStays
  /\ setting = "SeatsCap" => SeatsCap!SeatCap
  /\ setting = "SeatsInvites" => SeatsInvites!OneLink
  /\ setting = "SpaceQuota" => SpaceQuota!RosterTrue
  /\ setting = "SpaceRoster" => SpaceRoster!RosterTrue

\* The account is the one the page shows, with the factor and the address that
\* the user was shown.
AccountHeld ==
  /\ setting = "SignInPage" => SignInPage!ShownIsSession
  /\ setting = "SignInHasty" => SignInHasty!ChallengeFits /\ SignInHasty!ConnectingHeard /\ SignInHasty!ButtonWaits
  /\ setting = "FactorWindow" => FactorWindow!ShownIsStored /\ FactorWindow!MethodMirrors
  /\ setting = "FactorFaults" => FactorFaults!ShownIsStored
  /\ setting = "LinksAddress" => LinksAddress!OnePending /\ LinksAddress!AddressesDiffer

\* A step changes only what the user asked it to.
OnlyAsked ==
  [][/\ part = "picker" => PickerClicks!TickGrants /\ PickerClicks!UntickKeeps
     /\ setting = "SeatsInvites" => SeatsInvites!Final
     /\ setting = "CeremonyPreview" => CeremonyPreview!PreviewKeeps
     /\ setting = "FieldsPatient" => FieldsPatient!SummaryStays
     /\ setting = "PreviewPatient" => PreviewPatient!DraftKept /\ PreviewPatient!StaysOn
     /\ setting = "PreviewTurns" => PreviewTurns!NameKept
     /\ setting = "ClientUploads" => ClientUploads!GoesOn
     /\ setting = "OfficeAlone" => OfficeAlone!AskedFirst /\ OfficeAlone!NothingLost
     /\ setting = "OfficeSwept" => OfficeSwept!NothingLost
     /\ setting = "OfficeFaults" => OfficeFaults!NothingLost]_webVars

\* A step that lets somebody in, signs somebody out, changes a password or an
\* address, reports a document saved or ends its session has its proof.
ProvenSteps ==
  [][/\ setting = "SignInPage" => SignInPage!FactorGiven /\ SignInPage!FinishHeard
     /\ part = "idle" => IdleTabs!OwnActivity
     /\ part = "links" => LinksPassword!ResetOnce
     /\ setting = "LinksAddress" => LinksAddress!ConfirmSays
     /\ setting = "OfficeAlone" => OfficeAlone!SavedTrue
     /\ setting = "OfficeSwept" => OfficeSwept!SavedTrue
     /\ setting = "OfficeHasty" => OfficeHasty!SavedTrue
     /\ setting = "OfficePair" => OfficePair!CoEdited]_webVars

\* The timers run out, the requests are answered and the scheduled job runs:
\* the fairness of SignIn, SharedPage, TrashView, UploadClient and
\* EncryptionAtRest, two formulas for all since one part only is ever open.
Numbered(n) == \E t \in tasks : t.n = n /\ (\/ setting = "SharedBusy" /\ SharedBusy!Answer(t)
                                            \/ setting = "BinBulk" /\ BinBulk!Answer(t))
Served == \/ setting = "SignInHasty" /\ SignInHasty!GiveUp
          \/ part \in {"shared", "bin"} /\ Numbered(1)
          \/ setting = "ClientTabs" /\ ClientTabs!Step(1)
          \/ setting = "VaultBatch" /\ VaultBatch!Working("m")
ServedToo == \/ setting = "SignInHasty" /\ SignInHasty!Answer
             \/ part \in {"shared", "bin"} /\ Numbered(2)
             \/ setting = "ClientTabs" /\ ClientTabs!Step(2)
FairSpec == Spec /\ WF_webVars(Served /\ Rest) /\ WF_webVars(ServedToo /\ Rest)

\* Whoever waits is let go: the page that waits for a provider comes back, a
\* row or the bulk bar that is busy is free again, an upload ends; and of the
\* blobs stored before encryption was on, none that can be read remains plain.
Waiting == \/ setting = "SignInHasty" /\ at = "login" /\ page.connecting # NONE
           \/ setting = "SharedBusy" /\ busy # NONE
           \/ setting = "BinBulk" /\ page.bulk
           \/ setting = "ClientTabs" /\ up[1].at # "idle"
           \/ setting = "VaultBatch" /\ VaultBatch!Remaining
WaitsEnd == Waiting ~> ~Waiting
=============================================================================
