---------------------------- MODULE Settings_proofs ----------------------------
(***************************************************************************)
(* The type invariant of Settings, for any number of parallel saves: the   *)
(* inode that secrets.json names is never the one secrets.tmp names, since *)
(* every writer that makes an inode makes a new one.  For saves that do    *)
(* not overlap it follows that the camera's reference always resolves: the *)
(* new secret is in the file before the row refers to it, and what is      *)
(* moved over the file still holds the secret the row refers to.           *)
(*                                                                         *)
(* For saves beside each other: a field that no save in progress owns, and *)
(* whose last save was alone, is in the three places what that save left,  *)
(* and in every configuration loaded since.  A save that is alone has set  *)
(* what it has already written.                                            *)
(*                                                                         *)
(* And of Tailscale, for any number of requests and reconcilers: nothing   *)
(* of the user's is overwritten by a thread that could have seen it, and   *)
(* a thread that is alone ends access when it says that it did and closes  *)
(* the listener when it is not wanted.                                     *)
(***************************************************************************)
EXTENDS Settings, Tailscale, TLAPS

Places == {"idle", "load row", "load settings", "load secrets", "compare", "look", "put",
           "open", "write", "replace", "row", "bridge", "detection", "notify", "storage"}

Request == [pc : Places, edit : 0 .. MaxSaves, owned : SUBSET Fields,
            cfg : [Fields -> Values], ref : Refs, secrets : [Refs -> Values],
            inode : Refs \cup {NoInode}, met : BOOLEAN]

StoreTyped ==
  /\ row \in [Plain -> Values]
  /\ ref \in Refs /\ secretsAt \in Refs /\ minted \in Refs
  /\ content \in [Refs -> [Refs -> Values]]
  /\ tmpAt \in Refs \cup {NoInode}

RequestsTyped == req \in [Requests -> Request]

HistoryTyped ==
  /\ edits \in 0 .. MaxSaves
  /\ wanted \in [Fields -> Values] /\ shared \subseteq Fields
  /\ met \in BOOLEAN /\ wasTorn \in BOOLEAN

(* An inode about to be made is nobody else's, and newer than both names.  *)
FilesApart ==
  /\ tmpAt # secretsAt
  /\ secretsAt <= minted /\ tmpAt <= minted
  /\ \A r \in Requests : req[r].pc = "open" =>
       /\ req[r].ref <= minted
       /\ req[r].ref # secretsAt /\ req[r].ref # tmpAt
       /\ \A s \in Requests : s # r /\ req[s].pc = "open" => req[s].ref # req[r].ref

Inv == StoreTyped /\ RequestsTyped /\ HistoryTyped /\ FilesApart

LEMMA InvTyped == Inv => TypeOK
BY DEF Inv, StoreTyped, RequestsTyped, HistoryTyped, FilesApart, Request, Places, TypeOK

LEMMA ValuesKnown ==
  /\ Default \in Values /\ Unset \in Values /\ 0 .. MaxSaves \subseteq Values
  /\ Fields = Plain \cup {"password"} /\ "password" \notin Plain
  /\ 0 \in Refs /\ NoInode \notin Refs /\ 0 \in 0 .. MaxSaves /\ Refs \subseteq Int
  /\ Empty \in [Refs -> Values]
BY SettingsAssumption
DEF SettingsAssumption, Values, Default, Unset, Fields, Plain, Refs, NoInode, Empty

LEMMA IdleTyped == Idle \in Request
BY ValuesKnown DEF Idle, Request, Places

LEMMA InitInv == Init => Inv
<1> SUFFICES ASSUME Init PROVE Inv
  OBVIOUS
<1>1. [Empty EXCEPT ![0] = 0] \in [Refs -> Values]
  BY ValuesKnown
<1>2. StoreTyped
  BY <1>1, ValuesKnown DEF Init, StoreTyped
<1>3. RequestsTyped
  BY IdleTyped DEF Init, RequestsTyped
<1>4. HistoryTyped
  BY ValuesKnown DEF Init, HistoryTyped
<1>5. FilesApart
  BY DEF Init, FilesApart, Idle, NoInode
<1> QED
  BY <1>2, <1>3, <1>4, <1>5 DEF Inv

(* A request that changes only its own record, and not to "open".          *)
LEMMA OwnStep ==
  ASSUME Inv, NEW r \in Requests, NEW mine \in Request,
         req' = [req EXCEPT ![r] = mine], mine.pc # "open",
         UNCHANGED <<secretsAt, tmpAt, minted>>
  PROVE  RequestsTyped' /\ FilesApart'
<1>1. RequestsTyped'
  BY DEF Inv, RequestsTyped
<1>2. \A s \in Requests : req'[s] = req[s] \/ req'[s].pc # "open"
  BY DEF Inv, RequestsTyped
<1>3. FilesApart'
  BY <1>2 DEF Inv, FilesApart
<1> QED
  BY <1>1, <1>3

(* Reading leaves the store alone.                                         *)
LEMMA ReadingStep ==
  ASSUME Inv, NEW r \in Requests,
         LoadRow(r) \/ LoadSettings(r) \/ LoadSecrets(r) \/ ReadRef(r) \/ Compare(r)
  PROVE  Inv'
<1> USE DEF Inv
<1>1. UNCHANGED <<store, edits, history>>
  BY DEF LoadRow, LoadSettings, LoadSecrets, ReadRef, Compare
<1>2. StoreTyped' /\ HistoryTyped'
  BY <1>1 DEF store, history, StoreTyped, HistoryTyped
<1>3. req[r] \in Request
  BY DEF RequestsTyped
<1>4. \E mine \in Request : req' = [req EXCEPT ![r] = mine] /\ mine.pc # "open"
  <2>1. CASE LoadRow(r)
    <3>1. [req[r].cfg EXCEPT !["camera"] = row["camera"]] \in [Fields -> Values]
      BY <1>3 DEF Request, StoreTyped, Plain
    <3> DEFINE mine == [req[r] EXCEPT !.pc = "load settings", !.ref = ref,
                          !.cfg = [req[r].cfg EXCEPT !["camera"] = row["camera"]]]
    <3>2. mine \in Request /\ mine.pc # "open"
      BY <1>3, <3>1 DEF Request, Places, StoreTyped
    <3>3. req' = [req EXCEPT ![r] = mine]
      BY <2>1 DEF LoadRow, RequestsTyped, Request
    <3> QED
      BY <3>2, <3>3
  <2>2. CASE LoadSettings(r)
    <3> DEFINE cfg == [f \in Fields |-> IF f \in Plain \ {"camera"} THEN row[f]
                                        ELSE req[r].cfg[f]]
               mine == [req[r] EXCEPT !.pc = "load secrets", !.cfg = cfg]
    <3>1. cfg \in [Fields -> Values]
      BY <1>3 DEF Request, StoreTyped
    <3>2. mine \in Request /\ mine.pc # "open"
      BY <1>3, <3>1 DEF Request, Places
    <3>3. req' = [req EXCEPT ![r] = mine]
      BY <2>2 DEF LoadSettings, RequestsTyped, Request
    <3> QED
      BY <3>2, <3>3
  <2>3. CASE LoadSecrets(r)
    <3> DEFINE cfg == Edited(Loaded(r), req[r].owned, req[r].edit)
               mine == [req[r] EXCEPT !.pc = "compare", !.cfg = cfg]
    <3>1. Secrets[req[r].ref] \in Values
      BY <1>3 DEF Request, StoreTyped, Secrets
    <3>2. Loaded(r) \in [Fields -> Values]
      BY <1>3, <3>1, ValuesKnown DEF Request, Loaded
    <3>3. req[r].edit \in Values
      BY <1>3, ValuesKnown DEF Request
    <3>4. cfg \in [Fields -> Values]
      BY <3>2, <3>3 DEF Edited
    <3> HIDE DEF cfg
    <3>5. mine \in Request /\ mine.pc # "open"
      BY <1>3, <3>4 DEF Request, Places
    <3>6. req' = [req EXCEPT ![r] = mine]
      BY <2>3 DEF LoadSecrets, RequestsTyped, Request, cfg
    <3> QED
      BY <3>5, <3>6
  <2>4. CASE ReadRef(r)
    <3> DEFINE mine == [req[r] EXCEPT !.pc = "look", !.ref = ref]
    <3>1. mine \in Request /\ mine.pc # "open"
      BY <1>3 DEF Request, Places, StoreTyped
    <3>2. req' = [req EXCEPT ![r] = mine]
      BY <2>4 DEF ReadRef, RequestsTyped, Request
    <3> QED
      BY <3>1, <3>2
  <2>5. CASE Compare(r)
    <3>1. PICK pc \in {"row", "put"} : Goto(r, pc)
      BY <2>5 DEF Compare
    <3> DEFINE mine == [req[r] EXCEPT !.pc = pc]
    <3>2. mine \in Request /\ mine.pc # "open"
      BY <1>3 DEF Request, Places
    <3>3. req' = [req EXCEPT ![r] = mine]
      BY <3>1 DEF Goto
    <3> QED
      BY <3>2, <3>3
  <2> QED
    BY <2>1, <2>2, <2>3, <2>4, <2>5
<1> QED
  BY <1>1, <1>2, <1>4, OwnStep DEF store

(* Storing a secret: a new inode, its truncation, its content, its name.   *)
LEMMA SecretStep ==
  ASSUME Inv, NEW r \in Requests, PutSecret(r) \/ Open(r) \/ Write(r) \/ Replace(r)
  PROVE  Inv'
<1> USE DEF Inv
<1>1. req[r] \in Request
  BY DEF RequestsTyped
<1>2. CASE PutSecret(r)
  <2> DEFINE secrets == [Secrets EXCEPT ![minted + 1] = req[r].cfg["password"]]
             mine == [req[r] EXCEPT !.pc = "open", !.ref = minted + 1, !.secrets = secrets]
  <2>1. minted' = minted + 1 /\ minted + 1 \in Refs
    BY <1>2, SettingsAssumption DEF SettingsAssumption, PutSecret, StoreTyped, Refs
  <2>2. secrets \in [Refs -> Values]
    BY <1>1, <2>1, ValuesKnown DEF Request, StoreTyped, Secrets
  <2> HIDE DEF secrets
  <2>3. mine \in Request /\ mine.ref = minted + 1 /\ mine.pc = "open"
    BY <1>1, <2>1, <2>2 DEF Request, Places
  <2>4. req' = [req EXCEPT ![r] = mine]
    BY <1>2 DEF PutSecret, RequestsTyped, Request, secrets
  <2> HIDE DEF mine
  <2>5. RequestsTyped'
    BY <2>3, <2>4 DEF RequestsTyped
  <2>6. StoreTyped' /\ HistoryTyped'
    BY <1>2, <2>1 DEF PutSecret, history, StoreTyped, HistoryTyped
  <2>7. FilesApart'
    <3>1. secretsAt' = secretsAt /\ tmpAt' = tmpAt
      BY <1>2 DEF PutSecret
    <3>2. minted \in Int /\ secretsAt \in Int /\ tmpAt \in Int
      BY ValuesKnown DEF StoreTyped, NoInode
    <3>3. \A s \in Requests : req[s].ref \in Int
      BY ValuesKnown DEF RequestsTyped, Request
    <3>4. req'[r] = mine /\ \A s \in Requests : s # r => req'[s] = req[s]
      BY <2>4 DEF RequestsTyped
    <3> QED
      BY <2>1, <2>3, <3>1, <3>2, <3>3, <3>4 DEF FilesApart
  <2> QED
    BY <2>5, <2>6, <2>7
<1>3. CASE Open(r)
  <2> DEFINE inode == IF tmpAt = NoInode THEN req[r].ref ELSE tmpAt
             mine == [req[r] EXCEPT !.pc = "write", !.inode = inode]
  <2>1. inode \in Refs
    BY <1>1 DEF Request, StoreTyped
  <2>2. mine \in Request /\ mine.pc # "open"
    BY <1>1, <2>1 DEF Request, Places
  <2>3. req' = [req EXCEPT ![r] = mine]
    BY <1>3 DEF Open, RequestsTyped, Request
  <2>4. tmpAt' = inode /\ UNCHANGED <<row, ref, secretsAt, minted, edits, history>>
    BY <1>3 DEF Open
  <2>5. content' = [content EXCEPT ![inode] = Empty]
    BY <1>3 DEF Open
  <2> HIDE DEF mine
  <2>6. RequestsTyped'
    BY <2>2, <2>3 DEF RequestsTyped
  <2>7. StoreTyped' /\ HistoryTyped'
    BY <2>1, <2>4, <2>5, ValuesKnown DEF history, StoreTyped, HistoryTyped
  <2>8. FilesApart'
    <3>1. req'[r].pc # "open" /\ \A s \in Requests : s # r => req'[s] = req[s]
      BY <2>2, <2>3 DEF RequestsTyped
    <3>2. req[r].pc = "open"
      BY <1>3 DEF Open
    <3>3. inode # secretsAt /\ inode <= minted
      BY <3>2 DEF FilesApart
    <3>4. \A s \in Requests : s # r /\ req[s].pc = "open" => req[s].ref # inode
      BY <3>2 DEF FilesApart
    <3> QED
      BY <2>4, <3>1, <3>3, <3>4 DEF FilesApart
  <2> QED
    BY <2>6, <2>7, <2>8
<1>4. CASE Write(r)
  <2>1. content' = [content EXCEPT ![req[r].inode] = req[r].secrets]
    BY <1>4 DEF Write
  <2>2. StoreTyped' /\ HistoryTyped'
    BY <1>1, <1>4, <2>1 DEF Request, Write, history, StoreTyped, HistoryTyped
  <2> DEFINE mine == [req[r] EXCEPT !.pc = "replace"]
  <2>3. mine \in Request /\ mine.pc # "open"
    BY <1>1 DEF Request, Places
  <2>4. req' = [req EXCEPT ![r] = mine]
    BY <1>4 DEF Write, Goto
  <2> QED
    BY <1>4, <2>2, <2>3, <2>4, OwnStep DEF Write
<1>5. CASE Replace(r)
  <2> DEFINE mine == [req[r] EXCEPT !.pc = "row"]
  <2>1. mine \in Request /\ mine.pc # "open"
    BY <1>1 DEF Request, Places
  <2>2. req' = [req EXCEPT ![r] = mine]
    BY <1>5 DEF Replace, Goto
  <2>3. /\ tmpAt # NoInode /\ secretsAt' = tmpAt /\ tmpAt' = NoInode
        /\ UNCHANGED <<row, ref, content, minted, edits, wanted, shared, met>>
        /\ wasTorn' \in BOOLEAN
    BY <1>5 DEF Replace, HistoryTyped
  <2> HIDE DEF mine
  <2>4. StoreTyped' /\ HistoryTyped' /\ RequestsTyped'
    BY <2>1, <2>2, <2>3 DEF StoreTyped, HistoryTyped, RequestsTyped
  <2>5. FilesApart'
    <3>1. \A s \in Requests : req'[s] = req[s] \/ req'[s].pc # "open"
      BY <2>1, <2>2 DEF RequestsTyped
    <3>2. \A s \in Requests : req[s].ref # NoInode
      BY ValuesKnown DEF RequestsTyped, Request
    <3>3. minted \in Nat
      BY SettingsAssumption DEF SettingsAssumption, StoreTyped, Refs
    <3> QED
      BY <2>3, <3>1, <3>2, <3>3, ValuesKnown DEF FilesApart, StoreTyped, NoInode
  <2> QED
    BY <2>4, <2>5
<1> QED
  BY <1>2, <1>3, <1>4, <1>5

(* The rows.                                                               *)
LEMMA RowStep ==
  ASSUME Inv, NEW r \in Requests,
         \/ UpdateCamera(r)
         \/ Save(r, "bridge", {"bridge"}, "detection")
         \/ Save(r, "detection", {"tuning", "pet"}, "notify")
         \/ Save(r, "notify", {"notify"}, "storage")
  PROVE  Inv'
<1> USE DEF Inv
<1>1. req[r] \in Request /\ req[r].cfg \in [Fields -> Values] /\ req[r].ref \in Refs
  BY DEF RequestsTyped, Request
<1>2. PICK pc \in {"bridge", "detection", "notify", "storage"} : Goto(r, pc)
  BY DEF UpdateCamera, Save
<1> DEFINE mine == [req[r] EXCEPT !.pc = pc]
<1>3. mine \in Request /\ mine.pc # "open"
  BY <1>1 DEF Request, Places
<1>4. req' = [req EXCEPT ![r] = mine]
  BY <1>2 DEF Goto
<1>5. row' \in [Plain -> Values] /\ ref' \in Refs
  BY <1>1 DEF UpdateCamera, Save, StoreTyped, Fields
<1>6. UNCHANGED <<content, secretsAt, tmpAt, minted, edits, history>>
  BY DEF UpdateCamera, Save
<1> HIDE DEF mine
<1>7. StoreTyped' /\ HistoryTyped'
  BY <1>5, <1>6 DEF history, StoreTyped, HistoryTyped
<1>8. RequestsTyped' /\ FilesApart'
  BY <1>3, <1>4, <1>6, OwnStep
<1> QED
  BY <1>7, <1>8

(* The end of a request, by its last row or by an exception.               *)
LEMMA EndStep ==
  ASSUME Inv, NEW r \in Requests, SaveLast(r) \/ Abort(r)
  PROVE  Inv'
<1> USE DEF Inv
<1>1. req[r] \in Request
  BY DEF RequestsTyped
<1>2. req' = [req EXCEPT ![r] = Idle] /\ Idle.pc # "open"
  BY DEF SaveLast, Abort, Leave, Ended, Idle
<1>3. shared' \subseteq Fields
  BY <1>1 DEF SaveLast, Abort, Leave, Request, HistoryTyped
<1>4. row' \in [Plain -> Values]
  BY <1>1 DEF SaveLast, Abort, store, StoreTyped, Request, Fields
<1>5. wanted' \in [Fields -> Values]
  <2>1. CASE SaveLast(r)
    <3>1. req[r].edit \in Values
      BY <1>1, ValuesKnown DEF Request
    <3> QED
      BY <2>1, <3>1 DEF SaveLast, HistoryTyped
  <2>2. CASE Abort(r)
    <3>1. \A f \in Fields : Stored(f) \in Values
      BY ValuesKnown DEF Stored, Secrets, StoreTyped
    <3> QED
      BY <2>2, <3>1 DEF Abort, HistoryTyped
  <2> QED
    BY <2>1, <2>2
<1>6. UNCHANGED <<ref, content, secretsAt, tmpAt, minted, edits, met, wasTorn>>
  BY DEF SaveLast, Abort, store
<1>7. StoreTyped' /\ HistoryTyped'
  BY <1>3, <1>4, <1>5, <1>6 DEF StoreTyped, HistoryTyped
<1>8. RequestsTyped' /\ FilesApart'
  BY <1>2, <1>6, IdleTyped, OwnStep
<1> QED
  BY <1>7, <1>8

LEMMA BeginStep ==
  ASSUME Inv, NEW r \in Requests, NEW owned \in Screens, Begin(r, owned)
  PROVE  Inv'
<1> USE DEF Inv
<1>1. owned \subseteq Fields
  BY DEF Screens, SaveCamera, SaveDetection, SaveAppearance, SaveStorage, SaveNotify,
         ImportConfig, Fields, Plain
<1>2. edits' = edits + 1 /\ edits + 1 \in 0 .. MaxSaves
  BY SettingsAssumption DEF SettingsAssumption, Begin, HistoryTyped
<1>3. UNCHANGED <<store, wanted, shared, wasTorn>> /\ met' \in BOOLEAN
  BY DEF Begin, HistoryTyped
<1>4. \A s \in Requests : req'[s] \in Request /\ (req'[s] = req[s] \/ req'[s].pc # "open"
                             \/ (req'[s].pc = req[s].pc /\ req'[s].ref = req[s].ref))
  <2>1. [Idle EXCEPT !.pc = "load row", !.owned = owned, !.edit = edits + 1, !.met = ~Quiet]
          \in Request
    BY <1>1, <1>2, IdleTyped DEF Request, Places, Quiet
  <2>2. \A s \in Requests : [req[s] EXCEPT !.met = @ \/ Busy(s)] \in Request
    BY DEF RequestsTyped, Request, Busy
  <2> QED
    BY <2>1, <2>2 DEF Begin, RequestsTyped, Request, Idle
<1>5. StoreTyped' /\ HistoryTyped'
  BY <1>2, <1>3 DEF store, StoreTyped, HistoryTyped
<1>6. RequestsTyped'
  BY <1>4 DEF Begin, RequestsTyped
<1>7. FilesApart'
  BY <1>3, <1>4 DEF store, FilesApart
<1> QED
  BY <1>5, <1>6, <1>7

LEMMA InvAlways == Spec => []Inv
<1>1. Inv /\ [Next]_vars => Inv'
  <2> SUFFICES ASSUME Inv, [Next]_vars PROVE Inv'
    OBVIOUS
  <2>1. CASE UNCHANGED vars
    BY <2>1
    DEF vars, store, history, Inv, StoreTyped, RequestsTyped, HistoryTyped, FilesApart
  <2>2. ASSUME NEW r \in Requests, Step(r) PROVE Inv'
    BY <2>2, ReadingStep, SecretStep, RowStep, EndStep DEF Step
  <2> QED
    BY <2>1, <2>2, BeginStep DEF Next
<1> QED
  BY InitInv, <1>1, PTL DEF Spec

(* Every variable keeps its type, and however parallel saves share the     *)
(* name secrets.tmp, it never names the inode that secrets.json names, so  *)
(* that opening it cannot truncate the file that counts (_save_secrets).   *)
THEOREM TypeCorrect == Spec => []TypeOK
  BY InvAlways, InvTyped, PTL

-----------------------------------------------------------------------------
(* Saves that follow each other.                                           *)

(* What a save that is alone knows of the secrets, stage by stage.         *)
Sound(r) ==
  /\ req[r].pc \in {"look", "row"} => Secrets[req[r].ref] # Unset
  /\ req[r].pc = "put" => req[r].cfg["password"] # Unset
  /\ req[r].pc \in {"open", "write", "replace"} =>
       req[r].secrets[req[r].ref] # Unset /\ req[r].secrets[ref] # Unset
  /\ req[r].pc \in {"write", "replace"} => req[r].inode = tmpAt /\ tmpAt \in Refs
  /\ req[r].pc = "replace" => content[tmpAt] = req[r].secrets

InTurn == ~met =>
  /\ Secrets[ref] # Unset
  /\ \A r \in Requests : Sound(r)
  /\ \A r, s \in Requests : Busy(r) /\ Busy(s) => r = s

(* A step of the save that is under way, alone.                            *)
LEMMA ResolvesStep ==
  ASSUME Inv, NEW r \in Requests, Step(r), Secrets[ref] # Unset, Sound(r)
  PROVE  (Secrets[ref] # Unset)' /\ Sound(r)'
<1> USE DEF Inv
<1>1. /\ req[r] \in Request /\ req \in [Requests -> Request]
      /\ content \in [Refs -> [Refs -> Values]]
      /\ ref \in Refs /\ secretsAt \in Refs /\ tmpAt # secretsAt
      /\ NoInode \notin Refs
  BY ValuesKnown DEF RequestsTyped, StoreTyped, FilesApart
<1>2. ASSUME UNCHANGED <<content, secretsAt, ref>> PROVE Secrets' = Secrets /\ ref' = ref
  BY <1>2 DEF Secrets
<1>3. ASSUME UNCHANGED <<content, secretsAt, ref>>,
             req'[r].pc \notin {"look", "row", "put", "open", "write", "replace"}
      PROVE  (Secrets[ref] # Unset)' /\ Sound(r)'
  BY <1>2, <1>3 DEF Sound
<1>4. CASE LoadRow(r) \/ LoadSettings(r) \/ LoadSecrets(r)
  <2>1. UNCHANGED <<content, secretsAt, ref>>
    BY <1>4 DEF LoadRow, LoadSettings, LoadSecrets, store
  <2>2. req'[r].pc \in {"load settings", "load secrets", "compare"}
    <3>1. CASE LoadRow(r)
      BY <1>1, <3>1 DEF LoadRow, Request
    <3>2. CASE LoadSettings(r)
      BY <1>1, <3>2 DEF LoadSettings, Request
    <3>3. CASE LoadSecrets(r)
      BY <1>1, <3>3 DEF LoadSecrets, Request
    <3> QED
      BY <1>4, <3>1, <3>2, <3>3
  <2> QED
    BY <1>3, <2>1, <2>2
<1>5. CASE ReadRef(r)
  <2>1. /\ UNCHANGED <<content, secretsAt, ref>>
        /\ req'[r].pc = "look" /\ req'[r].ref = ref
    BY <1>1, <1>5 DEF ReadRef, store, Request
  <2> QED
    BY <1>2, <2>1 DEF Sound
<1>6. CASE Compare(r)
  <2>1. /\ UNCHANGED <<content, secretsAt, ref>>
        /\ req'[r].ref = req[r].ref /\ req'[r].cfg = req[r].cfg
        /\ \/ req'[r].pc = "row"
           \/ req'[r].pc = "put" /\ req[r].cfg["password"] # Unset
    BY <1>1, <1>6 DEF Compare, Goto, store, Request
  <2>2. Secrets[req[r].ref] # Unset
    BY <1>6 DEF Compare, Sound
  <2> QED
    BY <1>2, <2>1, <2>2 DEF Sound
<1>7. CASE PutSecret(r)
  <2> DEFINE secrets == [Secrets EXCEPT ![minted + 1] = req[r].cfg["password"]]
  <2>1. /\ UNCHANGED <<content, secretsAt, ref>>
        /\ req'[r].pc = "open" /\ req'[r].ref = minted + 1 /\ req'[r].secrets = secrets
    BY <1>1, <1>7 DEF PutSecret, Request
  <2>2. minted + 1 \in Refs /\ req[r].cfg["password"] # Unset
    BY <1>7, SettingsAssumption DEF SettingsAssumption, PutSecret, StoreTyped, Refs, Sound
  <2>3. Secrets \in [Refs -> Values]
    BY <1>1 DEF Secrets
  <2>4. secrets[minted + 1] # Unset /\ secrets[ref] # Unset
    BY <1>1, <2>2, <2>3
  <2> QED
    BY <1>2, <2>1, <2>4 DEF Sound
<1>8. CASE Open(r)
  <2>1. /\ req'[r].pc = "write" /\ req'[r].inode = tmpAt' /\ ref' = ref
        /\ req'[r].ref = req[r].ref /\ req'[r].secrets = req[r].secrets
    BY <1>1, <1>8 DEF Open, Request
  <2>2. secretsAt' = secretsAt /\ tmpAt' # secretsAt /\ content' = [content EXCEPT ![tmpAt'] = Empty]
    BY <1>8 DEF Open, FilesApart
  <2>3. Secrets' = Secrets
    BY <1>1, <2>2 DEF Secrets
  <2>4. req[r].pc = "open"
    BY <1>8 DEF Open
  <2>5. tmpAt' \in Refs
    BY <1>1, <1>8 DEF Open, Request, StoreTyped
  <2> QED
    BY <2>1, <2>3, <2>4, <2>5 DEF Sound
<1>9. CASE Write(r)
  <2>1. /\ req[r].pc = "write" /\ req'[r] = [req[r] EXCEPT !.pc = "replace"]
        /\ UNCHANGED <<ref, secretsAt, tmpAt>>
        /\ content' = [content EXCEPT ![req[r].inode] = req[r].secrets]
    BY <1>1, <1>9 DEF Write, Goto
  <2>2. req[r].inode = tmpAt /\ tmpAt \in Refs
    BY <2>1 DEF Sound
  <2>3. Secrets' = Secrets
    BY <1>1, <2>1, <2>2 DEF Secrets
  <2>4. /\ req'[r].pc = "replace" /\ req'[r].ref = req[r].ref
        /\ req'[r].secrets = req[r].secrets /\ req'[r].inode = req[r].inode
    BY <1>1, <2>1 DEF Request
  <2>5. content'[tmpAt'] = req'[r].secrets
    BY <1>1, <2>1, <2>2, <2>4
  <2> QED
    BY <2>1, <2>2, <2>3, <2>4, <2>5 DEF Sound
<1>10. CASE Replace(r)
  <2>1. /\ req[r].pc = "replace" /\ tmpAt # NoInode /\ secretsAt' = tmpAt
        /\ UNCHANGED <<content, ref>>
        /\ req'[r].pc = "row" /\ req'[r].ref = req[r].ref
    BY <1>1, <1>10 DEF Replace, Goto, Request
  <2>2. Secrets' = req[r].secrets
    BY <2>1 DEF Secrets, Sound
  <2> QED
    BY <2>1, <2>2 DEF Sound
<1>11. CASE UpdateCamera(r)
  <2>1. /\ req[r].pc = "row" /\ ref' = req[r].ref /\ req'[r].pc = "bridge"
        /\ UNCHANGED <<content, secretsAt>>
    BY <1>1, <1>11 DEF UpdateCamera, Goto, Request
  <2> QED
    BY <2>1 DEF Secrets, Sound
<1>12. CASE \/ Save(r, "bridge", {"bridge"}, "detection")
            \/ Save(r, "detection", {"tuning", "pet"}, "notify")
            \/ Save(r, "notify", {"notify"}, "storage")
  <2>1. /\ UNCHANGED <<content, secretsAt, ref>>
        /\ req'[r].pc \in {"detection", "notify", "storage"}
    BY <1>1, <1>12 DEF Save, Goto, Request
  <2> QED
    BY <1>3, <2>1
<1>13. CASE SaveLast(r) \/ Abort(r)
  <2>1. UNCHANGED <<content, secretsAt, ref>> /\ req'[r].pc = "idle"
    BY <1>1, <1>13 DEF SaveLast, Abort, Leave, Ended, Idle, store
  <2> QED
    BY <1>3, <2>1
<1> QED
  BY <1>4, <1>5, <1>6, <1>7, <1>8, <1>9, <1>10, <1>11, <1>12, <1>13 DEF Step

LEMMA InTurnStep == Inv /\ InTurn /\ [Next]_vars => InTurn'
<1> SUFFICES ASSUME Inv, InTurn, [Next]_vars, ~met'
             PROVE  /\ (Secrets[ref] # Unset)'
                    /\ \A s \in Requests : Sound(s)'
                    /\ \A s, t \in Requests : Busy(s)' /\ Busy(t)' => s = t
  BY DEF InTurn
<1> DEFINE Goal == /\ (Secrets[ref] # Unset)'
                   /\ \A s \in Requests : Sound(s)'
                   /\ \A s, t \in Requests : Busy(s)' /\ Busy(t)' => s = t
<1>0. req \in [Requests -> Request]
  BY DEF Inv, RequestsTyped
<1>1. CASE UNCHANGED vars
  BY <1>1 DEF vars, store, history, InTurn, Secrets, Sound, Busy
<1>2. ASSUME NEW r \in Requests, NEW owned \in Screens, Begin(r, owned) PROVE Goal
  <2>1. ~met /\ Quiet /\ UNCHANGED store
    BY <1>2 DEF Begin
  <2>2. Secrets'[ref'] # Unset
    BY <2>1 DEF InTurn, Secrets, store
  <2>3. \A s \in Requests : req[s].pc = "idle"
    BY <2>1 DEF Quiet, Busy
  <2>4. req'[r].pc = "load row" /\ \A s \in Requests : s # r => req'[s].pc = "idle"
    BY <1>0, <1>2, <2>3 DEF Begin, Idle, Request
  <2>5. \A s \in Requests : Sound(s)'
    BY <2>4 DEF Sound
  <2> QED
    BY <2>2, <2>4, <2>5 DEF Busy
<1>3. ASSUME NEW r \in Requests, Step(r) PROVE Goal
  <2>1. Busy(r) /\ met' = met /\ \A s \in Requests : s # r => req'[s] = req[s]
    <3>1. Busy(r)
      BY <1>3 DEF Step, LoadRow, LoadSettings, LoadSecrets, ReadRef, Compare, PutSecret, Open,
                  Write, Replace, UpdateCamera, Save, SaveLast, Abort, Busy
    <3>2. met' = met
      BY <1>3 DEF Step, LoadRow, LoadSettings, LoadSecrets, ReadRef, Compare, PutSecret, Open,
                  Write, Replace, UpdateCamera, Save, SaveLast, Abort, history
    <3>3. \A s \in Requests : s # r => req'[s] = req[s]
      BY <1>0, <1>3 DEF Step, LoadRow, LoadSettings, LoadSecrets, ReadRef, Compare, PutSecret,
                        Open, Write, Replace, UpdateCamera, Save, SaveLast, Abort, Leave,
                        Ended, Goto
    <3> QED
      BY <3>1, <3>2, <3>3
  <2>2. \A s \in Requests : s # r => req'[s].pc = "idle"
    BY <2>1 DEF InTurn, Busy
  <2>3. (Secrets[ref] # Unset)' /\ Sound(r)'
    BY <1>3, <2>1, ResolvesStep DEF InTurn
  <2>4. \A s \in Requests : s # r => Sound(s)'
    BY <2>2 DEF Sound
  <2> QED
    BY <2>2, <2>3, <2>4 DEF Busy
<1> QED
  BY <1>1, <1>2, <1>3 DEF Next

(* As long as no two saves overlap, the camera's password can be found at  *)
(* every moment, whatever save ended in an exception or with the host      *)
(* (save_config: put_secret, _save_secrets, and then the row).             *)
THEOREM Resolves == Spec => []ReferenceResolves
<1>1. Init => InTurn
  BY ValuesKnown DEF Init, InTurn, Secrets, Sound, Busy, Idle, Unset
<1>2. InTurn => ReferenceResolves
  BY DEF InTurn, ReferenceResolves
<1> QED
  BY InvAlways, InTurnStep, <1>1, <1>2, PTL DEF Spec

-----------------------------------------------------------------------------
(* Saves beside each other.                                                *)

Loading == {"idle", "load row", "load settings", "load secrets"}
Storing == {"put", "open", "write", "replace"}
Rows    == {"bridge", "detection", "notify", "storage"}

(* Nothing that is written to an inode is empty.                           *)
Readable ==
  /\ ~wasTorn => Secrets # Empty
  /\ \A r \in Requests :
       /\ req[r].pc = "put" => req[r].cfg["password"] # Unset
       /\ req[r].pc \in {"open", "write", "replace"} => req[r].secrets[req[r].ref] # Unset

(* A save at this stage has written the field.                             *)
Wrote(pc, f) ==
  \/ f = "camera" /\ pc \in Rows
  \/ f = "bridge" /\ pc \in {"detection", "notify", "storage"}
  \/ f \in {"tuning", "pet"} /\ pc \in {"notify", "storage"}
  \/ f = "notify" /\ pc = "storage"

(* What a save that is alone has done with the fields of its screen.       *)
Done(r) ==
  /\ req[r].edit > 0
  /\ req[r].pc \notin Loading => \A f \in req[r].owned : req[r].cfg[f] = req[r].edit
  /\ \A f \in Plain : Wrote(req[r].pc, f) => row[f] = req[r].cfg[f]
  /\ req[r].pc \in {"write", "replace"} => req[r].inode = tmpAt /\ tmpAt \in Refs
  /\ req[r].pc = "replace" => content[tmpAt] = req[r].secrets
  /\ "password" \in req[r].owned =>
       /\ req[r].pc \in {"open", "write", "replace"} =>
            req[r].secrets[req[r].ref] = req[r].edit
       /\ req[r].pc = "row" => Secrets[req[r].ref] = req[r].edit
       /\ req[r].pc \in Rows => Secrets[ref] = req[r].edit

Solo(r) == (\A s \in Requests \ {r} : ~Busy(s)) /\ Done(r)

Unread(f) == IF f = "camera" THEN {"idle", "load row"}
             ELSE IF f = "password" THEN Loading
             ELSE {"idle", "load row", "load settings"}

InHand(f) == \E r \in Requests : f \in req[r].owned

(* No save has seen another value of the field, or stores a secret.        *)
Agrees(r, f) ==
  /\ req[r].pc \notin Unread(f) => req[r].cfg[f] = wanted[f]
  /\ f = "password" =>
       /\ req[r].pc \notin {"idle", "load row"} => req[r].ref = ref
       /\ req[r].pc \notin Storing

(* A field that nobody is setting is as its last save left it.             *)
Settled(f) == Stored(f) = wanted[f] /\ \A r \in Requests : Agrees(r, f)

Apart ==
  /\ Readable
  /\ \A r \in Requests : Busy(r) /\ ~req[r].met => Solo(r)
  /\ \A r \in Requests : ~Busy(r) => req[r].owned = {}
  /\ \A f \in Fields \ shared : ~wasTorn /\ ~InHand(f) => Settled(f)

(* A step of one save is no step of another.                               *)
LEMMA StepOfOne ==
  ASSUME Inv, NEW r \in Requests, Step(r)
  PROVE  Busy(r) /\ met' = met /\ \A s \in Requests : s # r => req'[s] = req[s]
<1>0. req \in [Requests -> Request]
  BY DEF Inv, RequestsTyped
<1>1. Busy(r)
  BY DEF Step, LoadRow, LoadSettings, LoadSecrets, ReadRef, Compare, PutSecret, Open,
         Write, Replace, UpdateCamera, Save, SaveLast, Abort, Busy
<1>2. met' = met
  BY DEF Step, LoadRow, LoadSettings, LoadSecrets, ReadRef, Compare, PutSecret, Open,
         Write, Replace, UpdateCamera, Save, SaveLast, Abort, history
<1>3. \A s \in Requests : s # r => req'[s] = req[s]
  BY <1>0 DEF Step, LoadRow, LoadSettings, LoadSecrets, ReadRef, Compare, PutSecret,
              Open, Write, Replace, UpdateCamera, Save, SaveLast, Abort, Leave,
              Ended, Goto
<1> QED
  BY <1>1, <1>2, <1>3

(* What a save that has loaded is about never changes, until it ends.      *)
LEMMA GoesOn ==
  ASSUME Inv, NEW r \in Requests, Step(r), ~SaveLast(r), ~Abort(r)
  PROVE  /\ req'[r].owned = req[r].owned /\ req'[r].edit = req[r].edit
         /\ req'[r].met = req[r].met /\ req'[r].pc # "idle"
         /\ UNCHANGED <<wanted, shared>>
         /\ req[r].pc \notin Loading =>
              req'[r].cfg = req[r].cfg /\ req'[r].pc \notin Loading
<1>1. req[r] \in Request /\ req \in [Requests -> Request]
  BY DEF Inv, RequestsTyped
<1>2. CASE LoadRow(r)
  BY <1>1, <1>2 DEF LoadRow, history, Loading, Request
<1>3. CASE LoadSettings(r)
  BY <1>1, <1>3 DEF LoadSettings, history, Loading, Request
<1>4. CASE LoadSecrets(r)
  BY <1>1, <1>4 DEF LoadSecrets, history, Loading, Request
<1>5. CASE ReadRef(r)
  BY <1>1, <1>5 DEF ReadRef, history, Loading, Request
<1>6. CASE PutSecret(r)
  BY <1>1, <1>6 DEF PutSecret, history, Loading, Request
<1>7. CASE Open(r)
  BY <1>1, <1>7 DEF Open, history, Loading, Request
<1>8. ASSUME NEW pc \in Places \ Loading, Goto(r, pc), UNCHANGED <<wanted, shared>>
      PROVE  /\ req'[r].owned = req[r].owned /\ req'[r].edit = req[r].edit
             /\ req'[r].met = req[r].met /\ req'[r].pc \notin Loading
             /\ req'[r].cfg = req[r].cfg
  BY <1>1, <1>8 DEF Goto, Request
<1>9. CASE Compare(r) \/ Write(r) \/ Replace(r) \/ UpdateCamera(r)
           \/ Save(r, "bridge", {"bridge"}, "detection")
           \/ Save(r, "detection", {"tuning", "pet"}, "notify")
           \/ Save(r, "notify", {"notify"}, "storage")
  <2>1. UNCHANGED <<wanted, shared>> /\ \E pc \in Places \ Loading : Goto(r, pc)
    BY <1>9 DEF Compare, Write, Replace, UpdateCamera, Save, history, Places, Loading
  <2> QED
    BY <1>8, <2>1 DEF Loading
<1> QED
  BY <1>2, <1>3, <1>4, <1>5, <1>6, <1>7, <1>9 DEF Step

LEMMA ReadableStep == Inv /\ Readable /\ [Next]_vars => Readable'
<1> SUFFICES ASSUME Inv, Readable, [Next]_vars PROVE Readable'
  OBVIOUS
<1> DEFINE Mine(r) ==
      /\ req[r].pc = "put" => req[r].cfg["password"] # Unset
      /\ req[r].pc \in {"open", "write", "replace"} => req[r].secrets[req[r].ref] # Unset
<1>0. /\ req \in [Requests -> Request] /\ \A r \in Requests : req[r] \in Request
      /\ content \in [Refs -> [Refs -> Values]] /\ secretsAt \in Refs /\ tmpAt # secretsAt
  BY DEF Inv, RequestsTyped, StoreTyped, FilesApart
<1>1. CASE UNCHANGED vars
  BY <1>1 DEF vars, store, history, Readable, Secrets
<1>2. ASSUME NEW r \in Requests, NEW owned \in Screens, Begin(r, owned) PROVE Readable'
  <2>1. UNCHANGED <<content, secretsAt, wasTorn>>
    BY <1>2 DEF Begin, store
  <2>2. ASSUME NEW s \in Requests PROVE Mine(s)'
    <3>1. CASE s = r
      <4>1. req'[s].pc = "load row"
        BY <1>2, <3>1 DEF Begin, Idle
      <4> QED
        BY <4>1
    <3>2. CASE s # r
      <4>1. /\ req'[s].pc = req[s].pc /\ req'[s].cfg = req[s].cfg
            /\ req'[s].secrets = req[s].secrets /\ req'[s].ref = req[s].ref
        BY <1>0, <1>2, <3>2 DEF Begin, Request
      <4> QED
        BY <4>1 DEF Readable
    <3> QED
      BY <3>1, <3>2
  <2> QED
    BY <2>1, <2>2 DEF Readable, Secrets
<1>3. ASSUME NEW r \in Requests, Step(r) PROVE Readable'
  <2>1. \A s \in Requests : s # r => req'[s] = req[s]
    BY <1>3, StepOfOne
  <2>2. ASSUME Mine(r)' PROVE \A s \in Requests : Mine(s)'
    BY <2>1, <2>2 DEF Readable
  <2>3. ASSUME UNCHANGED <<content, secretsAt, wasTorn>>, Mine(r)' PROVE Readable'
    BY <2>2, <2>3 DEF Readable, Secrets
  <2>4. ASSUME UNCHANGED <<content, secretsAt, wasTorn>>,
               req'[r].pc \notin {"put", "open", "write", "replace"} PROVE Readable'
    BY <2>3, <2>4
  <2>5. CASE LoadRow(r) \/ LoadSettings(r) \/ LoadSecrets(r) \/ ReadRef(r)
    <3>1. UNCHANGED <<content, secretsAt, wasTorn>>
      BY <2>5 DEF LoadRow, LoadSettings, LoadSecrets, ReadRef, store, history
    <3>2. req'[r].pc \in {"load settings", "load secrets", "compare", "look"}
      <4>1. CASE LoadRow(r)
        BY <1>0, <4>1 DEF LoadRow, Request
      <4>2. CASE LoadSettings(r)
        BY <1>0, <4>2 DEF LoadSettings, Request
      <4>3. CASE LoadSecrets(r)
        BY <1>0, <4>3 DEF LoadSecrets, Request
      <4>4. CASE ReadRef(r)
        BY <1>0, <4>4 DEF ReadRef, Request
      <4> QED
        BY <2>5, <4>1, <4>2, <4>3, <4>4
    <3> QED
      BY <2>4, <3>1, <3>2
  <2>6. CASE Compare(r)
    <3>1. /\ UNCHANGED <<content, secretsAt, wasTorn>>
          /\ req'[r].cfg = req[r].cfg
          /\ \/ req'[r].pc = "row"
             \/ req'[r].pc = "put" /\ req[r].cfg["password"] # Unset
      BY <1>0, <2>6 DEF Compare, Goto, store, history, Request
    <3> QED
      BY <2>3, <3>1
  <2>7. CASE PutSecret(r)
    <3> DEFINE secrets == [Secrets EXCEPT ![minted + 1] = req[r].cfg["password"]]
    <3>1. /\ UNCHANGED <<content, secretsAt, wasTorn>>
          /\ req'[r].pc = "open" /\ req'[r].ref = minted + 1 /\ req'[r].secrets = secrets
      BY <1>0, <2>7 DEF PutSecret, history, Request
    <3>2. minted + 1 \in Refs /\ req[r].cfg["password"] # Unset
      BY <2>7, SettingsAssumption
      DEF SettingsAssumption, PutSecret, Inv, StoreTyped, Refs, Readable
    <3>3. Secrets \in [Refs -> Values]
      BY <1>0 DEF Secrets
    <3>4. secrets[minted + 1] # Unset
      BY <3>2, <3>3
    <3> QED
      BY <2>3, <3>1, <3>4
  <2>8. CASE Open(r)
    <3>1. /\ req[r].pc = "open" /\ req'[r].ref = req[r].ref
          /\ req'[r].secrets = req[r].secrets /\ req'[r].pc = "write"
      BY <1>0, <2>8 DEF Open, Request
    <3>2. /\ UNCHANGED <<secretsAt, wasTorn>> /\ tmpAt' # secretsAt
          /\ content' = [content EXCEPT ![tmpAt'] = Empty]
      BY <2>8 DEF Open, history, Inv, FilesApart
    <3>3. Secrets' = Secrets
      BY <1>0, <3>2 DEF Secrets
    <3> QED
      BY <2>2, <3>1, <3>2, <3>3 DEF Readable
  <2>9. CASE Write(r)
    <3>1. /\ req[r].pc = "write" /\ req'[r].ref = req[r].ref
          /\ req'[r].secrets = req[r].secrets /\ req'[r].pc = "replace"
      BY <1>0, <2>9 DEF Write, Goto, Request
    <3>2. /\ UNCHANGED <<secretsAt, wasTorn>>
          /\ content' = [content EXCEPT ![req[r].inode] = req[r].secrets]
      BY <2>9 DEF Write, history
    <3>3. req[r].secrets[req[r].ref] # Unset /\ req[r].ref \in Refs
      BY <1>0, <3>1 DEF Readable, Request
    <3>4. Secrets' = Secrets \/ Secrets' = req[r].secrets
      BY <1>0, <3>2 DEF Secrets
    <3>5. req[r].secrets # Empty
      BY <3>3 DEF Empty
    <3> QED
      BY <2>2, <3>1, <3>2, <3>3, <3>4, <3>5 DEF Readable
  <2>10. CASE Replace(r)
    <3>1. /\ req'[r].pc = "row" /\ Secrets' = content[tmpAt]
          /\ wasTorn' = (wasTorn \/ content[tmpAt] = Empty)
      BY <1>0, <2>10 DEF Replace, Goto, Secrets, Request
    <3> QED
      BY <2>2, <3>1 DEF Readable
  <2>11. CASE UpdateCamera(r) \/ Save(r, "bridge", {"bridge"}, "detection")
              \/ Save(r, "detection", {"tuning", "pet"}, "notify")
              \/ Save(r, "notify", {"notify"}, "storage")
    <3>1. /\ UNCHANGED <<content, secretsAt, wasTorn>>
          /\ req'[r].pc \in {"bridge", "detection", "notify", "storage"}
      BY <1>0, <2>11 DEF UpdateCamera, Save, Goto, history, Request
    <3> QED
      BY <2>4, <3>1
  <2>12. CASE SaveLast(r) \/ Abort(r)
    <3>1. UNCHANGED <<content, secretsAt, wasTorn>> /\ req'[r].pc = "idle"
      BY <1>0, <2>12 DEF SaveLast, Abort, Leave, Ended, Idle, store
    <3> QED
      BY <2>4, <3>1
  <2> QED
    BY <1>3, <2>5, <2>6, <2>7, <2>8, <2>9, <2>10, <2>11, <2>12 DEF Step
<1> QED
  BY <1>1, <1>2, <1>3 DEF Next

(* A save that is alone goes on.                                           *)
LEMMA DoneStep ==
  ASSUME Inv, NEW r \in Requests, Done(r), Step(r), ~SaveLast(r), ~Abort(r)
  PROVE  Done(r)'
<1>0. /\ req[r] \in Request /\ req \in [Requests -> Request] /\ row \in [Plain -> Values]
      /\ content \in [Refs -> [Refs -> Values]] /\ secretsAt \in Refs
      /\ tmpAt \in Refs \cup {NoInode}
      /\ req[r].cfg \in [Fields -> Values] /\ req[r].owned \subseteq Fields
      /\ req[r].ref \in Refs
  BY DEF Inv, RequestsTyped, StoreTyped, FilesApart, Request
<1>n. req[r].edit \in Nat
  <2>1. req[r].edit \in 0 .. MaxSaves
    BY <1>0 DEF Request
  <2> QED
    BY <2>1, SettingsAssumption DEF SettingsAssumption
<1>g. /\ req'[r].owned = req[r].owned /\ req'[r].edit = req[r].edit
      /\ req[r].pc \notin Loading => req'[r].cfg = req[r].cfg /\ req'[r].pc \notin Loading
  BY GoesOn
<1>e. req[r].edit # Unset
  BY <1>n DEF Unset
<1>1. ASSUME UNCHANGED <<row, content, secretsAt, ref>>, req'[r].pc \in {"load settings", "load secrets"}
      PROVE  Done(r)'
  BY <1>g, <1>1 DEF Done, Loading, Rows, Wrote
<1>2. CASE LoadRow(r) \/ LoadSettings(r)
  <2>1. /\ UNCHANGED <<row, content, secretsAt, ref>>
    BY <1>2 DEF LoadRow, LoadSettings, store
  <2>2. CASE LoadRow(r)
    <3>1. req'[r].pc = "load settings"
      BY <1>0, <2>2 DEF LoadRow, Request
    <3> QED
      BY <1>1, <2>1, <3>1
  <2>3. CASE LoadSettings(r)
    <3>1. req'[r].pc = "load secrets"
      BY <1>0, <2>3 DEF LoadSettings, Request
    <3> QED
      BY <1>1, <2>1, <3>1
  <2> QED
    BY <1>2, <2>2, <2>3
<1>3. CASE LoadSecrets(r)
  <2>1. req'[r].pc = "compare" /\ req'[r].cfg = Edited(Loaded(r), req[r].owned, req[r].edit)
    BY <1>0, <1>3 DEF LoadSecrets, Request
  <2>2. \A f \in req[r].owned : req'[r].cfg[f] = req[r].edit
    BY <1>0, <2>1 DEF Edited
  <2> QED
    BY <1>g, <2>1, <2>2 DEF Done, Rows, Wrote
<1>4. CASE ReadRef(r)
  <2>1. req[r].pc = "compare" /\ req'[r].pc = "look"
    BY <1>0, <1>4 DEF ReadRef, Request
  <2> QED
    BY <1>g, <2>1 DEF Done, Loading, Rows, Wrote
<1>5. CASE Compare(r)
  <2>1. /\ req[r].pc = "look" /\ req'[r].ref = req[r].ref
        /\ UNCHANGED <<row, content, secretsAt, ref>>
        /\ \/ req'[r].pc = "put"
           \/ /\ req'[r].pc = "row"
              /\ \/ req[r].cfg["password"] = Unset
                 \/ Secrets[req[r].ref] = req[r].cfg["password"]
    BY <1>0, <1>5 DEF Compare, Goto, store, Request
  <2>2. "password" \in req[r].owned => req[r].cfg["password"] = req[r].edit
    BY <2>1 DEF Done, Loading
  <2>3. Secrets' = Secrets
    BY <2>1 DEF Secrets
  <2> QED
    BY <1>g, <1>e, <2>1, <2>2, <2>3 DEF Done, Loading, Rows, Wrote
<1>6. CASE PutSecret(r)
  <2> DEFINE secrets == [Secrets EXCEPT ![minted + 1] = req[r].cfg["password"]]
  <2>1. /\ req[r].pc = "put" /\ req'[r].pc = "open" /\ req'[r].ref = minted + 1
        /\ req'[r].secrets = secrets
    BY <1>0, <1>6 DEF PutSecret, Request
  <2>2. minted + 1 \in Refs /\ Secrets \in [Refs -> Values]
    BY <1>0, <1>6, SettingsAssumption
    DEF SettingsAssumption, PutSecret, Inv, StoreTyped, Refs, Secrets
  <2>3. secrets[minted + 1] = req[r].cfg["password"]
    BY <2>2
  <2> HIDE DEF secrets
  <2> QED
    BY <1>g, <2>1, <2>3 DEF Done, Loading, Rows, Wrote
<1>7. CASE Open(r)
  <2>1. /\ req[r].pc = "open" /\ req'[r].pc = "write" /\ req'[r].inode = tmpAt'
        /\ req'[r].ref = req[r].ref /\ req'[r].secrets = req[r].secrets /\ row' = row
        /\ tmpAt' \in Refs
    BY <1>0, <1>7 DEF Open, Request
  <2> QED
    BY <1>g, <2>1 DEF Done, Loading, Rows, Wrote
<1>8. CASE Write(r)
  <2>1. /\ req[r].pc = "write" /\ req'[r].pc = "replace" /\ req'[r].inode = req[r].inode
        /\ req'[r].ref = req[r].ref /\ req'[r].secrets = req[r].secrets
        /\ row' = row /\ tmpAt' = tmpAt
        /\ content' = [content EXCEPT ![req[r].inode] = req[r].secrets]
    BY <1>0, <1>8 DEF Write, Goto, Request
  <2>2. req[r].inode = tmpAt /\ tmpAt \in Refs
    BY <2>1 DEF Done
  <2>3. content'[tmpAt] = req[r].secrets
    BY <1>0, <2>1, <2>2
  <2> QED
    BY <1>g, <2>1, <2>2, <2>3 DEF Done, Loading, Rows, Wrote
<1>9. CASE Replace(r)
  <2>1. /\ req[r].pc = "replace" /\ req'[r].pc = "row" /\ req'[r].ref = req[r].ref
        /\ secretsAt' = tmpAt /\ content' = content
    BY <1>0, <1>9 DEF Replace, Goto, Request
  <2>2. Secrets' = req[r].secrets
    BY <2>1 DEF Secrets, Done
  <2> QED
    BY <1>g, <2>1, <2>2 DEF Done, Loading, Rows, Wrote
<1>10. CASE UpdateCamera(r)
  <2>1. /\ req[r].pc = "row" /\ req'[r].pc = "bridge" /\ ref' = req[r].ref
        /\ row' = [row EXCEPT !["camera"] = req[r].cfg["camera"]]
        /\ UNCHANGED <<content, secretsAt>>
    BY <1>0, <1>10 DEF UpdateCamera, Goto, Request
  <2>2. Secrets' = Secrets /\ row'["camera"] = req[r].cfg["camera"]
    BY <1>0, <2>1 DEF Secrets, Plain
  <2> QED
    BY <1>g, <2>1, <2>2 DEF Done, Loading, Rows, Wrote
<1>11. ASSUME NEW here, NEW fields \in SUBSET Plain, NEW next \in Rows \ {"bridge"},
              Save(r, here, fields, next), here \in Rows,
              \A f \in Plain : Wrote(next, f) => Wrote(here, f) \/ f \in fields
       PROVE  Done(r)'
  <2>1. /\ req[r].pc = here /\ req'[r].pc = next
        /\ row' = [f \in Plain |-> IF f \in fields THEN req[r].cfg[f] ELSE row[f]]
        /\ UNCHANGED <<content, secretsAt, ref>>
    BY <1>0, <1>11 DEF Save, Goto, Request
  <2>2. Secrets' = Secrets /\ req'[r].cfg = req[r].cfg
    BY <1>g, <1>11, <2>1 DEF Secrets, Loading, Rows
  <2>3. \A f \in Plain : Wrote(next, f) => row'[f] = req[r].cfg[f]
    BY <1>11, <2>1 DEF Done
  <2> QED
    BY <1>g, <1>11, <2>1, <2>2, <2>3 DEF Done, Loading, Rows
<1>12. CASE Save(r, "bridge", {"bridge"}, "detection")
  BY <1>11, <1>12 DEF Rows, Wrote, Plain
<1>13. CASE Save(r, "detection", {"tuning", "pet"}, "notify")
  BY <1>11, <1>13 DEF Rows, Wrote, Plain
<1>14. CASE Save(r, "notify", {"notify"}, "storage")
  BY <1>11, <1>14 DEF Rows, Wrote, Plain
<1> QED
  BY <1>2, <1>3, <1>4, <1>5, <1>6, <1>7, <1>8, <1>9, <1>10, <1>12, <1>13, <1>14 DEF Step

(* A save that does not set a field leaves it, and has the same value of   *)
(* it as before.                                                           *)
LEMMA SettledStep ==
  ASSUME Inv, Readable, NEW r \in Requests, Step(r), NEW f \in Fields, ~wasTorn,
         Settled(f), f \notin req[r].owned
  PROVE  Settled(f)'
<1>0. /\ req[r] \in Request /\ req \in [Requests -> Request] /\ row \in [Plain -> Values]
      /\ content \in [Refs -> [Refs -> Values]] /\ secretsAt \in Refs
      /\ req[r].cfg \in [Fields -> Values]
      /\ Fields = Plain \cup {"password"} /\ "password" \notin Plain
      /\ wanted \in [Fields -> Values]
  BY ValuesKnown DEF Inv, RequestsTyped, StoreTyped, HistoryTyped, Request
<1>o. \A s \in Requests : s # r => req'[s] = req[s]
  BY StepOfOne
<1>w. wanted'[f] = wanted[f]
  <2>1. CASE SaveLast(r) \/ Abort(r)
    BY <2>1 DEF SaveLast, Abort
  <2>2. CASE ~SaveLast(r) /\ ~Abort(r)
    BY <2>2, GoesOn
  <2> QED
    BY <2>1, <2>2
<1>a. Agrees(r, f) /\ Stored(f) = wanted[f]
  BY DEF Settled
<1>q. ASSUME Agrees(r, f)', Stored(f)' = Stored(f), f = "password" => ref' = ref
      PROVE  Settled(f)'
  BY <1>a, <1>o, <1>q, <1>w DEF Settled, Agrees
<1>u. ASSUME UNCHANGED <<row, content, secretsAt, ref>> PROVE Stored(f)' = Stored(f)
  BY <1>u DEF Stored, Secrets
<1>1. CASE LoadRow(r)
  <2>1. /\ UNCHANGED <<row, content, secretsAt, ref>>
        /\ req'[r].pc = "load settings" /\ req'[r].ref = ref
        /\ req'[r].cfg = [req[r].cfg EXCEPT !["camera"] = row["camera"]]
    BY <1>0, <1>1 DEF LoadRow, store, Request
  <2>2. f = "camera" => req'[r].cfg[f] = wanted[f]
    BY <1>0, <1>a, <2>1 DEF Stored, Plain
  <2>3. Agrees(r, f)'
    BY <1>w, <2>1, <2>2 DEF Agrees, Unread, Loading, Storing
  <2> QED
    BY <1>q, <1>u, <2>1, <2>3
<1>2. CASE LoadSettings(r)
  <2>1. /\ UNCHANGED <<row, content, secretsAt, ref>> /\ req[r].pc = "load settings"
        /\ req'[r].pc = "load secrets" /\ req'[r].ref = req[r].ref
        /\ req'[r].cfg = [g \in Fields |-> IF g \in Plain \ {"camera"} THEN row[g]
                                           ELSE req[r].cfg[g]]
    BY <1>0, <1>2 DEF LoadSettings, store, Request
  <2>2. f # "password" => req'[r].cfg[f] = wanted[f]
    BY <1>0, <1>a, <2>1 DEF Stored, Agrees, Unread
  <2>3. Agrees(r, f)'
    BY <1>a, <1>w, <2>1, <2>2 DEF Agrees, Unread, Loading, Storing
  <2> QED
    BY <1>q, <1>u, <2>1, <2>3
<1>3. CASE LoadSecrets(r)
  <2>1. /\ UNCHANGED <<row, content, secretsAt, ref>> /\ req[r].pc = "load secrets"
        /\ req'[r].pc = "compare" /\ req'[r].ref = req[r].ref
        /\ req'[r].cfg = Edited(Loaded(r), req[r].owned, req[r].edit)
    BY <1>0, <1>3 DEF LoadSecrets, store, Request
  <2>2. req'[r].cfg[f] = Loaded(r)[f]
    BY <2>1 DEF Edited
  <2>3. Loaded(r) = [req[r].cfg EXCEPT !["password"] = Secrets[req[r].ref]]
    BY DEF Loaded, Readable
  <2>4. CASE f = "password"
    <3>1. Loaded(r)[f] = Secrets[ref]
      BY <1>0, <1>a, <2>1, <2>3, <2>4 DEF Agrees
    <3> QED
      BY <1>a, <1>q, <1>u, <1>w, <2>1, <2>2, <2>4, <3>1
      DEF Agrees, Unread, Loading, Storing, Stored
  <2>5. CASE f # "password"
    <3>1. Loaded(r)[f] = req[r].cfg[f]
      BY <1>0, <2>3, <2>5
    <3> QED
      BY <1>a, <1>q, <1>u, <1>w, <2>1, <2>2, <2>5, <3>1 DEF Agrees, Unread
  <2> QED
    BY <2>4, <2>5
<1>4. ASSUME req[r].pc \notin Loading, req'[r].cfg = req[r].cfg
      PROVE  req'[r].cfg[f] = wanted[f] /\ (f = "password" => req[r].ref = ref)
  BY <1>4, <1>a DEF Agrees, Unread, Loading
<1>5. CASE ReadRef(r)
  <2>1. /\ UNCHANGED <<row, content, secretsAt, ref>> /\ req[r].pc = "compare"
        /\ req'[r].pc = "look" /\ req'[r].ref = ref /\ req'[r].cfg = req[r].cfg
    BY <1>0, <1>5 DEF ReadRef, store, Request
  <2>2. Agrees(r, f)'
    BY <1>4, <1>w, <2>1 DEF Agrees, Loading, Storing
  <2> QED
    BY <1>q, <1>u, <2>1, <2>2
<1>6. CASE Compare(r)
  <2>1. /\ UNCHANGED <<row, content, secretsAt, ref>> /\ req[r].pc = "look"
        /\ req'[r].ref = req[r].ref /\ req'[r].cfg = req[r].cfg
        /\ \/ req'[r].pc = "row"
           \/ req'[r].pc = "put" /\ Secrets[req[r].ref] # req[r].cfg["password"]
    BY <1>0, <1>6 DEF Compare, Goto, store, Request
  <2>2. req[r].cfg[f] = wanted[f] /\ (f = "password" => req[r].ref = ref)
    BY <1>4, <2>1 DEF Loading
  <2>3. f = "password" => req'[r].pc = "row"
    BY <1>a, <2>1, <2>2 DEF Stored
  <2>4. Agrees(r, f)'
    BY <1>w, <2>1, <2>2, <2>3 DEF Agrees, Storing
  <2> QED
    BY <1>q, <1>u, <2>1, <2>4
<1>7. CASE PutSecret(r) \/ Open(r) \/ Write(r) \/ Replace(r)
  <2>1. req[r].pc \in Storing /\ row' = row
    BY <1>7 DEF PutSecret, Open, Write, Replace, Storing
  <2>2. f # "password"
    BY <1>a, <2>1 DEF Agrees
  <2>3. ~SaveLast(r) /\ ~Abort(r) => req'[r].cfg = req[r].cfg
    BY <2>1, GoesOn DEF Storing, Loading
  <2>4. req'[r].cfg = req[r].cfg
    BY <1>0, <1>7, <2>3 DEF PutSecret, Open, Write, Replace, Goto, Request
  <2>5. Agrees(r, f)'
    BY <1>4, <1>w, <2>1, <2>2, <2>4 DEF Agrees, Storing, Loading
  <2> QED
    BY <1>q, <2>1, <2>2, <2>5 DEF Stored
<1>8. CASE UpdateCamera(r)
  <2>1. /\ req[r].pc = "row" /\ req'[r].pc = "bridge" /\ ref' = req[r].ref
        /\ req'[r].ref = req[r].ref /\ req'[r].cfg = req[r].cfg
        /\ row' = [row EXCEPT !["camera"] = req[r].cfg["camera"]]
        /\ UNCHANGED <<content, secretsAt>>
    BY <1>0, <1>8 DEF UpdateCamera, Goto, Request
  <2>2. req[r].cfg[f] = wanted[f] /\ (f = "password" => req[r].ref = ref)
    BY <1>4, <2>1 DEF Loading
  <2>3. f \in Plain => row'[f] = row[f]
    BY <1>0, <1>a, <2>1, <2>2 DEF Stored
  <2>4. Stored(f)' = Stored(f)
    BY <1>0, <2>1, <2>2, <2>3 DEF Stored, Secrets
  <2>5. Agrees(r, f)'
    BY <1>w, <2>1, <2>2 DEF Agrees, Storing
  <2> QED
    BY <1>q, <2>1, <2>2, <2>4, <2>5
<1>9. ASSUME NEW fields, NEW pc \in {"detection", "notify", "storage"}, NEW here \in Rows,
             Save(r, here, fields, pc)
      PROVE  Settled(f)'
  <2>1. /\ req[r].pc = here /\ req'[r].pc = pc
        /\ req'[r].ref = req[r].ref /\ req'[r].cfg = req[r].cfg
        /\ row' = [g \in Plain |-> IF g \in fields THEN req[r].cfg[g] ELSE row[g]]
        /\ UNCHANGED <<content, secretsAt, ref>>
    BY <1>0, <1>9 DEF Save, Goto, Request
  <2>2. req[r].cfg[f] = wanted[f] /\ (f = "password" => req[r].ref = ref)
    BY <1>4, <2>1 DEF Loading, Rows
  <2>3. f \in Plain => row'[f] = row[f]
    BY <1>0, <1>a, <2>1, <2>2 DEF Stored
  <2>4. Stored(f)' = Stored(f)
    BY <1>0, <2>1, <2>3 DEF Stored, Secrets
  <2>5. Agrees(r, f)'
    BY <1>w, <2>1, <2>2 DEF Agrees, Storing
  <2> QED
    BY <1>q, <2>1, <2>4, <2>5
<1>10. CASE SaveLast(r) \/ Abort(r)
  <2>1. /\ UNCHANGED <<content, secretsAt, ref>> /\ req'[r].pc = "idle"
        /\ \/ row' = row
           \/ /\ req[r].pc = "storage"
              /\ row' = [row EXCEPT !["storage"] = req[r].cfg["storage"]]
    BY <1>0, <1>10 DEF SaveLast, Abort, Leave, Ended, Idle, store
  <2>2. f \in Plain => row'[f] = row[f]
    <3>1. req[r].pc = "storage" => req[r].cfg[f] = wanted[f]
      BY <1>a DEF Agrees, Unread, Loading
    <3> QED
      BY <1>0, <1>a, <2>1, <3>1 DEF Stored
  <2>3. Stored(f)' = Stored(f)
    BY <1>0, <2>1, <2>2 DEF Stored, Secrets
  <2>4. Agrees(r, f)'
    BY <2>1 DEF Agrees, Unread, Loading, Storing
  <2> QED
    BY <1>q, <2>1, <2>3, <2>4
<1> QED
  BY <1>1, <1>2, <1>3, <1>5, <1>6, <1>7, <1>8, <1>9, <1>10 DEF Step, Rows

(* Once secrets.json has been found empty, that is remembered.             *)
LEMMA TornStays ==
  ASSUME NEW r \in Requests, Step(r), ~wasTorn' PROVE ~wasTorn
BY DEF Step, LoadRow, LoadSettings, LoadSecrets, ReadRef, Compare, PutSecret, Open, Write,
       Replace, UpdateCamera, Save, SaveLast, Abort, history

LEMMA ApartBegin ==
  ASSUME Inv, Apart, Readable', NEW r \in Requests, NEW owned \in Screens, Begin(r, owned)
  PROVE  Apart'
<1>0. req \in [Requests -> Request]
  BY DEF Inv, RequestsTyped
<1>1. /\ UNCHANGED <<row, ref, content, secretsAt, wanted, shared, wasTorn>>
      /\ ~Busy(r) /\ edits' = edits + 1
  BY DEF Begin, store
<1>2. /\ req'[r].pc = "load row" /\ req'[r].edit = edits + 1 /\ req'[r].met = ~Quiet
  BY DEF Begin, Idle
<1>3. ASSUME NEW s \in Requests, s # r
      PROVE  /\ req'[s].pc = req[s].pc /\ req'[s].owned = req[s].owned
             /\ req'[s].cfg = req[s].cfg /\ req'[s].ref = req[s].ref
             /\ req'[s].met = (req[s].met \/ Busy(s))
  BY <1>0, <1>3 DEF Begin, Request
<1>4. ASSUME NEW s \in Requests, Busy(s)', ~req'[s].met PROVE Solo(s)'
  <2>1. s = r
    BY <1>3, <1>4 DEF Busy
  <2>2. \A t \in Requests \ {r} : ~Busy(t)'
    BY <1>2, <1>3, <1>4, <2>1 DEF Quiet, Busy
  <2>3. req'[r].edit > 0
    <3>1. edits \in 0 .. MaxSaves
      BY DEF Inv, HistoryTyped
    <3>2. edits + 1 > 0
      BY <3>1, SettingsAssumption DEF SettingsAssumption
    <3> QED
      BY <1>2, <3>2
  <2>4. Done(r)'
    BY <1>2, <2>3 DEF Done, Loading, Rows, Wrote
  <2> QED
    BY <2>1, <2>2, <2>4 DEF Solo
<1>5. ASSUME NEW s \in Requests, ~Busy(s)' PROVE req'[s].owned = {}
  BY <1>2, <1>3, <1>5 DEF Apart, Busy
<1>6. ASSUME NEW f \in Fields \ shared, ~wasTorn, ~InHand(f)' PROVE Settled(f)'
  <2>1. ~InHand(f)
    BY <1>1, <1>3, <1>6 DEF InHand, Apart
  <2>2. Settled(f)
    BY <1>6, <2>1 DEF Apart
  <2>3. Stored(f)' = wanted'[f]
    BY <1>1, <2>2 DEF Settled, Stored, Secrets
  <2>4. ASSUME NEW s \in Requests PROVE Agrees(s, f)'
    <3>1. CASE s = r
      BY <1>2, <3>1 DEF Agrees, Unread, Loading, Storing
    <3>2. CASE s # r
      <4>1. Agrees(s, f)
        BY <2>2 DEF Settled
      <4> QED
        BY <1>1, <1>3, <3>2, <4>1 DEF Agrees
    <3> QED
      BY <3>1, <3>2
  <2> QED
    BY <2>3, <2>4 DEF Settled
<1> QED
  BY <1>1, <1>4, <1>5, <1>6 DEF Apart

(* Whoever is in the middle of a save while r moves has met it.            *)
LEMMA OthersMet ==
  ASSUME Inv, Apart, NEW r \in Requests, Step(r), NEW s \in Requests, s # r, Busy(s)'
  PROVE  req'[s].met
<1>1. req'[s] = req[s] /\ Busy(r)
  BY StepOfOne
<1>2. Busy(s)
  BY <1>1 DEF Busy
<1> QED
  BY <1>1, <1>2 DEF Apart, Solo

LEMMA ApartGoesOn ==
  ASSUME Inv, Apart, Readable', NEW r \in Requests, Step(r), ~SaveLast(r), ~Abort(r)
  PROVE  Apart'
<1>1. Busy(r) /\ \A s \in Requests : s # r => req'[s] = req[s]
  BY StepOfOne
<1>2. /\ req'[r].owned = req[r].owned /\ req'[r].met = req[r].met /\ req'[r].pc # "idle"
      /\ shared' = shared
  BY GoesOn
<1>3. ASSUME NEW s \in Requests, Busy(s)', ~req'[s].met PROVE Solo(s)'
  <2>1. s = r
    BY <1>3, OthersMet
  <2>2. Solo(r)
    BY <1>1, <1>2, <1>3, <2>1 DEF Apart
  <2>3. Done(r)'
    BY <2>2, DoneStep DEF Solo
  <2>4. \A t \in Requests \ {r} : ~Busy(t)'
    BY <1>1, <2>2 DEF Solo, Busy
  <2> QED
    BY <2>1, <2>3, <2>4 DEF Solo
<1>4. ASSUME NEW s \in Requests, ~Busy(s)' PROVE req'[s].owned = {}
  BY <1>1, <1>2, <1>4 DEF Apart, Busy
<1>5. ASSUME NEW f \in Fields \ shared', ~wasTorn', ~InHand(f)' PROVE Settled(f)'
  <2>1. ~InHand(f) /\ f \notin req[r].owned
    BY <1>1, <1>2, <1>5 DEF InHand
  <2>2. ~wasTorn
    BY <1>5, TornStays
  <2>3. Settled(f)
    BY <1>2, <1>5, <2>1, <2>2 DEF Apart
  <2> QED
    BY <2>1, <2>2, <2>3, SettledStep DEF Apart
<1> QED
  BY <1>3, <1>4, <1>5 DEF Apart

(* A save that was alone leaves its fields as wanted; one that was not     *)
(* makes them shared.                                                      *)
LEMMA ApartEnd ==
  ASSUME Inv, Apart, Readable', NEW r \in Requests, Step(r), SaveLast(r) \/ Abort(r)
  PROVE  Apart'
<1>0. /\ req \in [Requests -> Request] /\ req[r] \in Request /\ row \in [Plain -> Values]
      /\ wanted \in [Fields -> Values]
  BY DEF Inv, RequestsTyped, StoreTyped, HistoryTyped
<1>1. Busy(r) /\ \A s \in Requests : s # r => req'[s] = req[s]
  BY StepOfOne
<1>2. /\ req'[r] = Idle /\ wasTorn' = wasTorn /\ UNCHANGED <<content, secretsAt, ref>>
      /\ shared' = IF req[r].met THEN shared \cup req[r].owned ELSE shared \ req[r].owned
  BY <1>0 DEF SaveLast, Abort, Leave, Ended, store
<1>3. req'[r].pc = "idle" /\ req'[r].owned = {}
  BY <1>2 DEF Idle
<1>4. ASSUME NEW s \in Requests, Busy(s)', ~req'[s].met PROVE Solo(s)'
  BY <1>3, <1>4, OthersMet DEF Busy
<1>5. ASSUME NEW s \in Requests, ~Busy(s)' PROVE req'[s].owned = {}
  BY <1>1, <1>3, <1>5 DEF Apart, Busy
<1>6. ASSUME NEW f \in Fields \ shared', ~wasTorn', ~InHand(f)' PROVE Settled(f)'
  <2>1. CASE f \notin req[r].owned
    <3>1. ~InHand(f) /\ f \notin shared
      BY <1>1, <1>2, <1>6, <2>1 DEF InHand
    <3>2. Settled(f)
      BY <1>2, <1>6, <3>1 DEF Apart
    <3> QED
      BY <1>2, <1>6, <2>1, <3>2, SettledStep DEF Apart
  <2>2. CASE f \in req[r].owned
    <3>1. Solo(r)
      BY <1>1, <1>2, <1>6, <2>2 DEF Apart
    <3>2. \A s \in Requests : req'[s].pc = "idle"
      BY <1>1, <1>3, <3>1 DEF Solo, Busy
    <3>3. \A s \in Requests : Agrees(s, f)'
      BY <3>2 DEF Agrees, Unread, Loading, Storing
    <3>4. CASE Abort(r)
      <4>1. wanted'[f] = Stored(f) /\ row' = row
        BY <2>2, <3>4 DEF Abort, store
      <4> QED
        BY <1>2, <3>3, <4>1 DEF Settled, Stored, Secrets
    <3>5. CASE SaveLast(r)
      <4>1. /\ wanted'[f] = req[r].edit /\ req[r].pc = "storage"
            /\ row' = [row EXCEPT !["storage"] = req[r].cfg["storage"]]
        BY <2>2, <3>5 DEF SaveLast
      <4>2. Done(r) /\ req[r].cfg[f] = req[r].edit
        BY <2>2, <3>1, <4>1 DEF Solo, Done, Loading
      <4>3. CASE f = "password"
        <5>1. Secrets[ref] = req[r].edit
          BY <2>2, <4>1, <4>2, <4>3 DEF Done, Rows
        <5> QED
          BY <1>2, <3>3, <4>1, <4>3, <5>1 DEF Settled, Stored, Secrets
      <4>4. CASE f \in Plain
        <5>1. row'[f] = req[r].cfg[f]
          BY <1>0, <4>1, <4>2, <4>4 DEF Done, Wrote, Rows, Plain
        <5>2. f # "password"
          BY <4>4, ValuesKnown
        <5> QED
          BY <3>3, <4>1, <4>2, <5>1, <5>2 DEF Settled, Stored
      <4> QED
        BY <4>3, <4>4 DEF Fields
    <3> QED
      BY <3>4, <3>5
  <2> QED
    BY <2>1, <2>2
<1> QED
  BY <1>4, <1>5, <1>6 DEF Apart

LEMMA ApartStep == Inv /\ Apart /\ [Next]_vars => Apart'
<1> SUFFICES ASSUME Inv, Apart, [Next]_vars PROVE Apart'
  OBVIOUS
<1>1. Readable'
  BY ReadableStep DEF Apart
<1>2. CASE UNCHANGED vars
  <2>1. UNCHANGED <<row, ref, content, secretsAt, tmpAt, req, wanted, shared, wasTorn>>
    BY <1>2 DEF vars, store, history
  <2>2. ASSUME NEW r \in Requests, Busy(r)', ~req'[r].met PROVE Solo(r)'
    <3>1. Solo(r)
      BY <2>1, <2>2 DEF Apart, Busy
    <3> QED
      BY <2>1, <3>1 DEF Solo, Done, Busy, Secrets
  <2>3. ASSUME NEW f \in Fields \ shared', ~wasTorn', ~InHand(f)' PROVE Settled(f)'
    <3>1. Settled(f)
      BY <2>1, <2>3 DEF Apart, InHand
    <3> QED
      BY <2>1, <3>1 DEF Settled, Stored, Secrets, Agrees
  <2> QED
    BY <1>1, <2>1, <2>2, <2>3 DEF Apart, Busy
<1>3. ASSUME NEW r \in Requests, Step(r) PROVE Apart'
  BY <1>1, <1>3, ApartGoesOn, ApartEnd
<1>4. ASSUME NEW r \in Requests, NEW owned \in Screens, Begin(r, owned) PROVE Apart'
  BY <1>1, <1>4, ApartBegin
<1> QED
  BY <1>2, <1>3, <1>4 DEF Next

LEMMA InitApart == Init => Apart
<1> SUFFICES ASSUME Init PROVE Apart
  OBVIOUS
<1>1. \A r \in Requests : req[r].pc = "idle" /\ req[r].owned = {}
  BY DEF Init, Idle
<1>2. Secrets[ref] = 0 /\ Secrets # Empty
  <2>1. content[0] = [Empty EXCEPT ![0] = 0] /\ Secrets = content[0] /\ ref = 0
    BY ValuesKnown DEF Init, Secrets
  <2>2. Secrets[ref] = 0
    BY <2>1, ValuesKnown
  <2>3. Empty[0] = Unset
    BY ValuesKnown DEF Empty
  <2> QED
    BY <2>1, <2>2, <2>3 DEF Unset
<1>3. Readable
  BY <1>1, <1>2 DEF Readable
<1>4. \A f \in Fields : Settled(f)
  BY <1>1, <1>2 DEF Settled, Stored, Agrees, Unread, Loading, Storing, Init, Fields
<1> QED
  BY <1>1, <1>3, <1>4 DEF Apart, Busy

(* A save that was alone is kept, also by the saves after it that run      *)
(* beside each other, as long as none of them found secrets.json empty     *)
(* (save_config, whose screens set only the fields they own).              *)
THEOREM KeptBesideOthers == Spec => []EditsKept
<1>1. Inv /\ Apart => EditsKept
  BY DEF EditsKept, Quiet, Apart, InHand, Settled
<1> QED
  BY <1>1, InvAlways, InitApart, ApartStep, PTL DEF Spec

-----------------------------------------------------------------------------
(* Tailscale access.  Its callers come in threads of the same server, and  *)
(* their row is written after looks at a world that moves on meanwhile.    *)

Goals   == {"show", "enable", "disable", "verify", "removed", "reconcile"}
Looking == {"status", "serve", "judge"}

(* What a thread holds has its fields, it is at the end of its look where  *)
(* it wanted to be, and only the threads of the behaviour do anything.     *)
Record(o) ==
  o = [pc |-> o.pc, goal |-> o.goal, id |-> o.id, mapping |-> o.mapping, found |-> o.found,
       before |-> o.before, fresh |-> o.fresh, desired |-> o.desired, status |-> o.status]

InPlace(t) ==
  /\ Record(op[t])
  /\ op[t].pc \in Looking => op[t].goal \in Goals
  /\ op[t].pc \in Goals => op[t].goal = op[t].pc
  /\ t \notin scope.threads => op[t].pc = "idle"

HeldTyped ==
  /\ tailnet = [up |-> tailnet.up, id |-> tailnet.id, mapping |-> tailnet.mapping]
  /\ op = [t \in Threads |-> op[t]]
  /\ \A t \in Threads : InPlace(t)

Ours == tailnet.mapping \in {"none", "ours"}

(* As far as the thread can know there is nothing of the user's where it   *)
(* is going to write.                                                      *)
Clear(t) == op[t].fresh =>
  /\ op[t].pc = "judge" /\ op[t].mapping \in {"none", "ours"} => Ours
  /\ op[t].pc = "enable" /\ op[t].found = "connected" => Ours
  /\ op[t].pc = "disable" /\ op[t].mapping = "ours" => Ours
  /\ op[t].pc = "run" => Ours

(* A thread that is alone is about to want access, or closes the listener, *)
(* unless an exception took it past both.                                  *)
Opening(t) ==
  \/ op[t].pc = "run" /\ op[t].goal = "enable"
  \/ op[t].pc \in Looking \cup {"verify"} /\ op[t].goal = "verify"
  \/ op[t].pc = "persist" /\ op[t].goal = "verify" /\ op[t].desired

Careful(t) ==
  /\ backend /\ ~access.desired => Opening(t) \/ leftOpen
  /\ op[t].pc = "persist" /\ ~op[t].desired => ~backend
  /\ op[t].pc = "persist" /\ op[t].status = "connected" => ~sessions /\ ~backend
  /\ op[t].pc = "reconcile" /\ op[t].found = "enabled" => access.desired

Kept ==
  /\ HeldTyped
  /\ \A t \in Threads : Clear(t)
  /\ \A t \in Threads : scope.threads = {t} => Careful(t)

LEMMA IdleKept == ASSUME NEW t \in Threads, op[t] = AtRest PROVE InPlace(t) /\ Clear(t)
BY DEF AtRest, InPlace, Record, Looking, Goals, Clear

LEMMA InitKept == TailscaleInit => Kept
<1> SUFFICES ASSUME TailscaleInit PROVE Kept
  OBVIOUS
<1>1. /\ op = [t \in Threads |-> AtRest] /\ \A t \in Threads : op[t] = AtRest
      /\ tailnet = [up |-> TRUE, id |-> tailnet.id, mapping |-> "none"] /\ ~backend
  BY DEF TailscaleInit
<1>2. HeldTyped
  BY <1>1, IdleKept DEF HeldTyped
<1>3. \A t \in Threads : Clear(t)
  BY <1>1, IdleKept
<1>4. \A t \in Threads : Careful(t)
  BY <1>1 DEF Careful, AtRest
<1> QED
  BY <1>2, <1>3, <1>4 DEF Kept

(* What the environment does.                                              *)
LEMMA EnvironmentStep ==
  ASSUME Kept, UNCHANGED scope, leftOpen /\ backend' => leftOpen',
         Drift \/ Outage \/ Recover \/ SignIn \/ Restart
  PROVE  Kept'
<1> USE DEF Kept, HeldTyped
<1>1. CASE Drift
  <2>1. /\ op' = [t \in Threads |-> [op[t] EXCEPT !.fresh = FALSE]]
        /\ UNCHANGED <<access, backend, sessions>>
    BY <1>1 DEF Drift, Unseen, state
  <2>2. tailnet' = [up |-> tailnet'.up, id |-> tailnet'.id, mapping |-> tailnet'.mapping]
    <3>1. PICK id, mapping : tailnet' = [tailnet EXCEPT !.id = id, !.mapping = mapping]
      BY <1>1 DEF Drift
    <3> QED
      BY <3>1
  <2>3. ASSUME NEW t \in Threads
        PROVE  /\ Record(op[t])' /\ op'[t].fresh = FALSE
               /\ op'[t].pc = op[t].pc /\ op'[t].goal = op[t].goal
               /\ op'[t].mapping = op[t].mapping /\ op'[t].found = op[t].found
               /\ op'[t].desired = op[t].desired /\ op'[t].status = op[t].status
    <3>1. Record(op[t]) /\ op'[t] = [op[t] EXCEPT !.fresh = FALSE]
      BY <2>1 DEF InPlace
    <3> QED
      BY <3>1 DEF Record
  <2>4. \A t \in Threads : InPlace(t)'
    BY <2>3 DEF InPlace
  <2>5. \A t \in Threads : Clear(t)'
    BY <2>3 DEF Clear
  <2>6. ASSUME NEW t \in Threads, scope.threads = {t} PROVE Careful(t)'
    <3>1. Careful(t)
      BY <2>6
    <3> QED
      BY <2>1, <2>3, <3>1 DEF Careful, Opening
  <2> QED
    BY <2>1, <2>2, <2>4, <2>5, <2>6
<1>2. CASE Outage \/ Recover
  <2>1. /\ UNCHANGED <<op, access, backend, sessions>> /\ tailnet'.mapping = tailnet.mapping
        /\ tailnet' = [up |-> tailnet'.up, id |-> tailnet'.id, mapping |-> tailnet'.mapping]
    BY <1>2 DEF Outage, Recover, state
  <2> QED
    BY <2>1 DEF InPlace, Record, Clear, Ours, Careful, Opening
<1>3. CASE SignIn
  <2>1. UNCHANGED <<tailnet, access, backend, op>> /\ backend
    BY <1>3 DEF SignIn
  <2> QED
    BY <2>1 DEF InPlace, Record, Clear, Ours, Careful, Opening
<1>4. CASE Restart
  <2>1. /\ op' = [t \in Threads |-> AtRest] /\ backend' = FALSE
        /\ UNCHANGED <<tailnet, access>>
    BY <1>4 DEF Restart
  <2>2. \A t \in Threads : op'[t] = AtRest
    BY <2>1
  <2>3. \A t \in Threads : InPlace(t)'
    BY <2>2 DEF InPlace, Record, AtRest, Looking, Goals
  <2>4. \A t \in Threads : Clear(t)' /\ Careful(t)'
    BY <2>1, <2>2 DEF Clear, Careful, AtRest
  <2> QED
    BY <2>1, <2>3, <2>4
<1> QED
  BY <1>1, <1>2, <1>3, <1>4

(* A thread that moves leaves the others what they hold, and of the        *)
(* mappings only what was there for the taking.                            *)
Moves(t) ==
  /\ op' = [s \in Threads |-> op'[s]]
  /\ \A s \in Threads : s # t => op'[s] = op[s]
  /\ tailnet' = [up |-> tailnet'.up, id |-> tailnet'.id, mapping |-> tailnet'.mapping]
  /\ Ours => Ours'

LEMMA MovesKept ==
  ASSUME Kept, UNCHANGED scope, NEW t \in Threads, Moves(t), InPlace(t)', Clear(t)',
         scope.threads = {t} => Careful(t)',
         t \in scope.threads
  PROVE  Kept'
<1>1. ASSUME NEW s \in Threads PROVE InPlace(s)' /\ Clear(s)'
  <2>1. CASE s = t
    BY <2>1
  <2>2. CASE s # t
    <3>1. op'[s] = op[s] /\ InPlace(s) /\ Clear(s)
      BY <2>2 DEF Moves, Kept, HeldTyped
    <3> QED
      BY <3>1 DEF InPlace, Clear, Moves
  <2> QED
    BY <2>1, <2>2
<1>2. ASSUME NEW s \in Threads, scope'.threads = {s} PROVE Careful(s)'
  BY <1>2
<1> QED
  BY <1>1, <1>2 DEF Kept, HeldTyped, Moves

(* What a thread holds after a step: the fields that the step sets.        *)
LEMMA Holds ==
  ASSUME HeldTyped, NEW t \in Threads, NEW o, op' = [op EXCEPT ![t] = o]
  PROVE  /\ op'[t] = o /\ op' = [s \in Threads |-> op'[s]]
         /\ \A s \in Threads : s # t => op'[s] = op[s]
BY DEF HeldTyped

LEMMA LookStep ==
  ASSUME Kept, UNCHANGED scope, leftOpen /\ backend' => leftOpen',
         NEW t \in Threads, t \in scope.threads,
         ReadStatus(t) \/ ReadServe(t) \/ Judge(t) \/ Show(t) \/ Persist(t)
  PROVE  Kept'
<1> USE DEF Kept
<1>0. HeldTyped /\ Record(op[t]) /\ InPlace(t) /\ Clear(t) /\ (scope.threads = {t} => Careful(t))
  BY DEF HeldTyped, InPlace
<1>1. tailnet' = tailnet /\ Ours' = Ours
  BY DEF ReadStatus, ReadServe, Judge, Show, Persist, Ours
<1>2. ASSUME NEW o, op' = [op EXCEPT ![t] = o] PROVE Moves(t) /\ op'[t] = o
  BY <1>0, <1>1, <1>2, Holds DEF Moves, HeldTyped
<1>3. ASSUME Moves(t), InPlace(t)', Clear(t)', scope.threads = {t} => Careful(t)' PROVE Kept'
  BY <1>3, MovesKept
<1>u. CASE Unavailable(t) /\ op[t].pc \in Looking /\ UNCHANGED <<access, backend, sessions>>
  <2> DEFINE o == [op[t] EXCEPT !.pc = op[t].goal, !.id = NoId, !.mapping = "none",
                                !.found = "unavailable"]
  <2>1. op' = [op EXCEPT ![t] = o]
    BY <1>0, <1>u DEF Unavailable, Record, HeldTyped
  <2>2. Moves(t) /\ op'[t] = o
    BY <1>2, <2>1
  <2>3. /\ op'[t].pc = op[t].goal /\ op'[t].goal = op[t].goal /\ op'[t].mapping = "none"
        /\ op'[t].found = "unavailable" /\ Record(op[t])'
    BY <1>0, <2>2 DEF Record
  <2>4. op[t].goal \in Goals
    BY <1>0, <1>u DEF InPlace
  <2>5. InPlace(t)' /\ Clear(t)'
    BY <1>0, <1>u, <2>3, <2>4 DEF InPlace, Clear, Looking, Goals
  <2>6. ASSUME scope.threads = {t} PROVE Careful(t)'
    BY <1>0, <1>u, <2>3, <2>4, <2>6 DEF Careful, Opening, Looking, Goals
  <2> QED
    BY <1>3, <2>2, <2>5, <2>6
<1>4. CASE ReadStatus(t) /\ tailnet.up
  <2> DEFINE o == [op[t] EXCEPT !.pc = "serve", !.id = tailnet.id]
  <2>1. op' = [op EXCEPT ![t] = o] /\ op[t].pc = "status" /\ UNCHANGED <<access, backend, sessions>>
    BY <1>0, <1>4 DEF ReadStatus, Record, HeldTyped
  <2>2. Moves(t) /\ op'[t] = o
    BY <1>2, <2>1
  <2>3. InPlace(t)' /\ Clear(t)'
    <3>1. op'[t].pc = "serve" /\ op'[t].goal = op[t].goal /\ Record(op[t])'
      BY <1>0, <2>2 DEF Record
    <3> QED
      BY <1>0, <2>1, <3>1 DEF InPlace, Clear, Looking, Goals
  <2>4. ASSUME scope.threads = {t} PROVE Careful(t)'
    BY <1>0, <2>1, <2>2, <2>4 DEF Record, Careful, Opening, Looking
  <2> QED
    BY <1>3, <2>2, <2>3, <2>4
<1>5. CASE ReadServe(t) /\ tailnet.up
  <2> DEFINE o == [op[t] EXCEPT !.pc = "judge", !.mapping = tailnet.mapping, !.fresh = TRUE]
  <2>1. op' = [op EXCEPT ![t] = o] /\ op[t].pc = "serve" /\ UNCHANGED <<access, backend, sessions>>
    BY <1>0, <1>5 DEF ReadServe, Record, HeldTyped
  <2>2. Moves(t) /\ op'[t] = o
    BY <1>2, <2>1
  <2>3. InPlace(t)' /\ Clear(t)'
    <3>1. /\ op'[t].pc = "judge" /\ op'[t].goal = op[t].goal /\ Record(op[t])'
          /\ op'[t].mapping = tailnet.mapping
      BY <1>0, <2>2 DEF Record
    <3> QED
      BY <1>0, <1>1, <2>1, <3>1 DEF InPlace, Clear, Looking, Goals, Ours
  <2>4. ASSUME scope.threads = {t} PROVE Careful(t)'
    BY <1>0, <2>1, <2>2, <2>4 DEF Record, Careful, Opening, Looking
  <2> QED
    BY <1>3, <2>2, <2>3, <2>4
<1>6. CASE Judge(t)
  <2> DEFINE o == [op[t] EXCEPT !.pc = op[t].goal, !.found = Verdict(op[t])]
  <2>1. op' = [op EXCEPT ![t] = o] /\ op[t].pc = "judge" /\ UNCHANGED <<access, backend, sessions>>
    BY <1>0, <1>6 DEF Judge, Record, HeldTyped
  <2>2. Moves(t) /\ op'[t] = o
    BY <1>2, <2>1
  <2>3. op[t].goal \in Goals
    BY <1>0, <2>1 DEF InPlace, Looking
  <2>4. /\ Verdict(op[t]) = "connected" => op[t].mapping = "none"
        /\ Verdict(op[t]) = "enabled" => access.desired
    BY DEF Verdict
  <2>5. /\ op'[t].pc = op[t].goal /\ op'[t].goal = op[t].goal /\ op'[t].mapping = op[t].mapping
        /\ op'[t].found = Verdict(op[t]) /\ op'[t].fresh = op[t].fresh /\ Record(op[t])'
    BY <1>0, <2>2 DEF Record
  <2>6. InPlace(t)'
    BY <1>0, <2>1, <2>3, <2>5 DEF InPlace, Looking, Goals
  <2>7. Clear(t)'
    BY <1>0, <1>1, <2>1, <2>3, <2>4, <2>5 DEF Clear, Goals
  <2>8. ASSUME scope.threads = {t} PROVE Careful(t)'
    BY <1>0, <2>1, <2>3, <2>4, <2>5, <2>8 DEF Careful, Opening, Looking, Goals
  <2> QED
    BY <1>3, <2>2, <2>6, <2>7, <2>8
<1>7. CASE Show(t) \/ Persist(t)
  <2>1. op' = [op EXCEPT ![t] = AtRest] /\ op[t].pc \in {"show", "persist"} /\ backend' = backend
    BY <1>7 DEF Show, Persist, Finish, state
  <2>2. Moves(t) /\ op'[t] = AtRest
    BY <1>2, <2>1
  <2>3. InPlace(t)' /\ Clear(t)'
    BY <2>2 DEF InPlace, Record, Clear, AtRest, Looking, Goals
  <2>4. ASSUME scope.threads = {t} PROVE Careful(t)'
    <3>1. backend => access'.desired \/ leftOpen
      <4>1. CASE Show(t)
        BY <1>0, <2>4, <4>1 DEF Show, state, Careful, Opening, Looking
      <4>2. CASE Persist(t)
        BY <1>0, <2>4, <4>2 DEF Persist, Careful
      <4> QED
        BY <1>7, <4>1, <4>2
    <3> QED
      BY <2>1, <2>2, <3>1 DEF Careful, AtRest
  <2> QED
    BY <1>3, <2>2, <2>3, <2>4
<1>8. ReadStatus(t) \/ ReadServe(t) =>
        \/ tailnet.up
        \/ Unavailable(t) /\ op[t].pc \in Looking /\ UNCHANGED <<access, backend, sessions>>
  BY DEF ReadStatus, ReadServe, Looking
<1> QED
  BY <1>u, <1>4, <1>5, <1>6, <1>7, <1>8

(* The ways a thread goes on.                                              *)
LEMMA Decides ==
  ASSUME Kept, UNCHANGED scope, NEW t \in Threads, t \in scope.threads,
         NEW desired, NEW status, Decide(t, desired, status)
  PROVE  /\ op'[t].pc = "persist" /\ op'[t].desired = desired /\ op'[t].status = status
         /\ op'[t].goal = op[t].goal
         /\ InPlace(t)' /\ Clear(t)'
         /\ op' = [s \in Threads |-> op'[s]]
         /\ \A s \in Threads : s # t => op'[s] = op[s]
<1> DEFINE o == [op[t] EXCEPT !.pc = "persist", !.desired = desired, !.status = status]
<1>0. HeldTyped /\ Record(op[t])
  BY DEF Kept, HeldTyped, InPlace
<1>1. op' = [op EXCEPT ![t] = o]
  BY <1>0 DEF Decide, HeldTyped, Record
<1>2. /\ op'[t] = o /\ op' = [s \in Threads |-> op'[s]]
      /\ \A s \in Threads : s # t => op'[s] = op[s]
  BY <1>0, <1>1, Holds
<1>3. /\ op'[t].pc = "persist" /\ op'[t].desired = desired /\ op'[t].status = status
      /\ op'[t].goal = op[t].goal /\ Record(op[t])'
  BY <1>0, <1>2 DEF Record
<1> QED
  BY <1>2, <1>3 DEF InPlace, Clear, Looking, Goals

LEMMA Ways ==
  ASSUME Kept, UNCHANGED scope, NEW t \in Threads, t \in scope.threads
  PROVE  /\ Finish(t) => op'[t] = AtRest /\ InPlace(t)' /\ Clear(t)'
         /\ \A goal \in Goals : Observe(t, goal) =>
              op'[t].pc = "status" /\ op'[t].goal = goal /\ InPlace(t)' /\ Clear(t)'
         /\ (\/ Finish(t)
             \/ \E goal : Observe(t, goal)
             \/ \E o : op' = [op EXCEPT ![t] = o]) =>
              /\ op' = [s \in Threads |-> op'[s]]
              /\ \A s \in Threads : s # t => op'[s] = op[s]
<1>0. HeldTyped /\ Record(op[t])
  BY DEF Kept, HeldTyped, InPlace
<1>1. ASSUME Finish(t) PROVE op'[t] = AtRest /\ InPlace(t)' /\ Clear(t)'
  <2>1. op'[t] = AtRest
    BY <1>0, <1>1, Holds DEF Finish
  <2> QED
    BY <2>1 DEF InPlace, Record, Clear, AtRest, Looking, Goals
<1>2. ASSUME NEW goal, Observe(t, goal)
      PROVE  /\ op' = [op EXCEPT ![t] = [op[t] EXCEPT !.pc = "status", !.goal = goal]]
             /\ goal \in Goals =>
                  op'[t].pc = "status" /\ op'[t].goal = goal /\ InPlace(t)' /\ Clear(t)'
  <2> DEFINE o == [op[t] EXCEPT !.pc = "status", !.goal = goal]
  <2>1. op' = [op EXCEPT ![t] = o]
    BY <1>0, <1>2 DEF Observe, HeldTyped, Record
  <2>2. op'[t] = o
    BY <1>0, <2>1, Holds
  <2>3. op'[t].pc = "status" /\ op'[t].goal = goal /\ Record(op[t])'
    BY <1>0, <2>2 DEF Record
  <2> QED
    BY <2>1, <2>3 DEF InPlace, Clear, Looking, Goals
<1>3. Finish(t) => op' = [op EXCEPT ![t] = AtRest]
  BY DEF Finish
<1>4. ASSUME NEW o, op' = [op EXCEPT ![t] = o]
      PROVE  /\ op' = [s \in Threads |-> op'[s]]
             /\ \A s \in Threads : s # t => op'[s] = op[s]
  BY <1>0, <1>4, Holds
<1> QED
  BY <1>1, <1>2, <1>3, <1>4

LEMMA EnableStep ==
  ASSUME Kept, UNCHANGED scope, leftOpen /\ backend' => leftOpen',
         NEW t \in Threads, t \in scope.threads,
         Enable(t) \/ RunEnable(t) \/ EnableFails(t) \/ Verify(t)
  PROVE  Kept'
<1> USE DEF Kept
<1>0. HeldTyped /\ Record(op[t]) /\ InPlace(t) /\ Clear(t) /\ (scope.threads = {t} => Careful(t))
  BY DEF HeldTyped, InPlace
<1>1. CASE Enable(t) /\ op[t].found = "connected"
  <2> DEFINE o == [op[t] EXCEPT !.pc = "run", !.before = op[t].id]
  <2>1. /\ op' = [op EXCEPT ![t] = o] /\ op[t].pc = "enable" /\ tailnet' = tailnet
    BY <1>0, <1>1 DEF Enable, HeldTyped, Record
  <2>2. op'[t] = o /\ Moves(t)
    BY <1>0, <2>1, Holds, Ways DEF Moves, HeldTyped, Ours
  <2>3. /\ op'[t].pc = "run" /\ op'[t].goal = "enable" /\ op'[t].fresh = op[t].fresh
        /\ Record(op[t])'
    <3>1. op[t].goal = "enable"
      BY <1>0, <2>1 DEF InPlace, Goals
    <3> QED
      BY <1>0, <2>2, <3>1 DEF Record
  <2>4. InPlace(t)' /\ Clear(t)'
    BY <1>0, <1>1, <2>1, <2>3 DEF InPlace, Clear, Looking, Goals, Ours
  <2>5. Careful(t)'
    BY <2>3 DEF Careful, Opening
  <2> QED
    BY <2>2, <2>4, <2>5, MovesKept
<1>2. CASE Enable(t) /\ op[t].found # "connected"
  <2>1. Finish(t) /\ op[t].pc = "enable" /\ UNCHANGED <<tailnet, access, backend, sessions>>
    BY <1>2 DEF Enable
  <2>2. Moves(t) /\ op'[t] = AtRest /\ InPlace(t)' /\ Clear(t)'
    BY <1>0, <2>1, Ways DEF Moves, HeldTyped, Ours
  <2>3. ASSUME scope.threads = {t} PROVE Careful(t)'
    BY <1>0, <2>1, <2>2, <2>3 DEF Careful, Opening, Looking, AtRest
  <2> QED
    BY <2>2, <2>3, MovesKept
<1>3. CASE RunEnable(t)
  <2>1. Observe(t, "verify") /\ "verify" \in Goals
    BY <1>3 DEF RunEnable, Goals
  <2>2. PICK mapping \in Mapped : tailnet' = [tailnet EXCEPT !.mapping = mapping]
    BY <1>3 DEF RunEnable
  <2>3. /\ tailnet' = [up |-> tailnet'.up, id |-> tailnet'.id, mapping |-> tailnet'.mapping]
        /\ Ours => Ours'
    BY <1>0, <2>2 DEF HeldTyped, Ours, Mapped
  <2>4. /\ Moves(t) /\ op'[t].pc = "status" /\ op'[t].goal = "verify"
        /\ InPlace(t)' /\ Clear(t)'
    BY <2>1, <2>3, Ways DEF Moves
  <2>5. Careful(t)'
    BY <2>4 DEF Careful, Opening, Looking
  <2> QED
    BY <2>4, <2>5, MovesKept
<1>4. CASE EnableFails(t)
  <2>1. /\ Decide(t, FALSE, "needs_serve_consent") \/ Finish(t)
        /\ tailnet' = tailnet /\ backend' = FALSE
    BY <1>4 DEF EnableFails
  <2>2. Moves(t) /\ InPlace(t)' /\ Clear(t)'
    BY <1>0, <2>1, Ways, Decides DEF Moves, HeldTyped, Ours
  <2>3. op'[t].pc \in {"persist", "idle"} /\ (op'[t].pc = "persist" => op'[t].status # "connected")
    <3>1. CASE Finish(t)
      <4>1. op'[t] = AtRest
        BY <3>1, Ways
      <4> QED
        BY <4>1 DEF AtRest
    <3>2. CASE Decide(t, FALSE, "needs_serve_consent")
      <4>1. op'[t].pc = "persist" /\ op'[t].status = "needs_serve_consent"
        BY <3>2, Decides
      <4> QED
        BY <4>1
    <3> QED
      BY <2>1, <3>1, <3>2
  <2>4. Careful(t)'
    BY <2>1, <2>3 DEF Careful
  <2> QED
    BY <2>2, <2>4, MovesKept
<1>5. CASE Verify(t)
  <2>1. /\ tailnet' = tailnet
        /\ \/ Decide(t, TRUE, "enabled")
           \/ Decide(t, FALSE, "cleanup_required") /\ backend' = FALSE
    BY <1>5 DEF Verify
  <2>2. Moves(t) /\ InPlace(t)' /\ Clear(t)'
    BY <1>0, <2>1, Ways, Decides DEF Moves, HeldTyped, Ours
  <2>3. /\ op'[t].pc = "persist" /\ op'[t].status # "connected"
        /\ \/ op'[t].desired = TRUE /\ op'[t].goal = "verify"
           \/ op'[t].desired = FALSE /\ backend' = FALSE
    <3>1. CASE Decide(t, TRUE, "enabled")
      <4>1. /\ op'[t].pc = "persist" /\ op'[t].desired = TRUE /\ op'[t].status = "enabled"
            /\ op'[t].goal = op[t].goal
        BY <3>1, Decides
      <4>2. op[t].goal = "verify"
        BY <1>0, <1>5 DEF Verify, InPlace, Goals
      <4> QED
        BY <4>1, <4>2
    <3>2. CASE Decide(t, FALSE, "cleanup_required") /\ backend' = FALSE
      <4>1. /\ op'[t].pc = "persist" /\ op'[t].desired = FALSE
            /\ op'[t].status = "cleanup_required"
        BY <3>2, Decides
      <4> QED
        BY <3>2, <4>1
    <3> QED
      BY <2>1, <3>1, <3>2
  <2>4. Careful(t)'
    BY <2>3 DEF Careful, Opening
  <2> QED
    BY <2>2, <2>4, MovesKept
<1> QED
  BY <1>1, <1>2, <1>3, <1>4, <1>5

LEMMA DisableStep ==
  ASSUME Kept, UNCHANGED scope, leftOpen /\ backend' => leftOpen',
         NEW t \in Threads, t \in scope.threads,
         \/ Disable(t) \/ RunDisable(t) \/ DisableFails(t)
         \/ Removed(t) \/ Reconcile(t)
  PROVE  Kept'
<1> USE DEF Kept
<1>0. HeldTyped /\ Record(op[t]) /\ InPlace(t) /\ Clear(t) /\ (scope.threads = {t} => Careful(t))
  BY DEF HeldTyped, InPlace
<1>1. CASE Disable(t) /\ StepTo(t, "run")
  <2> DEFINE o == [op[t] EXCEPT !.pc = "run"]
  <2>1. /\ op' = [op EXCEPT ![t] = o] /\ op[t].pc = "disable" /\ tailnet' = tailnet
    BY <1>0, <1>1 DEF Disable, StepTo, HeldTyped, Record
  <2>2. op'[t] = o /\ Moves(t)
    BY <1>0, <2>1, Holds, Ways DEF Moves, HeldTyped, Ours
  <2>3. op'[t].pc = "run" /\ op'[t].fresh = op[t].fresh /\ Record(op[t])'
    BY <1>0, <2>1, <2>2 DEF Record
  <2>4. access' = access /\ access.desired /\ op[t].mapping = "ours"
    <3>1. op'[t].pc # "idle" /\ op'[t].pc # "persist"
      BY <2>3
    <3>2. ~Finish(t)
      BY <3>1, Ways DEF AtRest
    <3>3. ~Decide(t, TRUE, "cleanup_required")
      BY <3>1, Decides
    <3> QED
      BY <1>1, <3>2, <3>3 DEF Disable, Owned
  <2>5. InPlace(t)' /\ Clear(t)'
    BY <1>0, <1>1, <2>1, <2>3, <2>4 DEF InPlace, Clear, Looking, Goals, Ours
  <2>6. Careful(t)'
    BY <2>3, <2>4 DEF Careful
  <2> QED
    BY <2>2, <2>5, <2>6, MovesKept
<1>2. CASE RunDisable(t)
  <2>1. /\ Observe(t, "removed") /\ "removed" \in Goals
        /\ UNCHANGED <<access, backend, sessions>>
        /\ op[t].pc = "run" /\ op[t].goal = "disable"
    BY <1>2 DEF RunDisable, Goals, state
  <2>2. PICK mapping \in Unmapped : tailnet' = [tailnet EXCEPT !.mapping = mapping]
    BY <1>2 DEF RunDisable
  <2>3. /\ tailnet' = [up |-> tailnet'.up, id |-> tailnet'.id, mapping |-> tailnet'.mapping]
        /\ Ours => Ours'
    BY <1>0, <2>2 DEF HeldTyped, Ours, Unmapped
  <2>4. /\ Moves(t) /\ op'[t].pc = "status" /\ op'[t].goal = "removed"
        /\ InPlace(t)' /\ Clear(t)'
    BY <2>1, <2>3, Ways DEF Moves
  <2>5. ASSUME scope.threads = {t} PROVE Careful(t)'
    BY <1>0, <2>1, <2>4, <2>5 DEF Careful, Opening, Looking
  <2> QED
    BY <2>4, <2>5, MovesKept
\* All other ways write the row, and leave the listener as it was or close it.
<1>3. ASSUME NEW desired \in BOOLEAN, NEW status, Decide(t, desired, status),
             tailnet' = tailnet, access' = access, ~Opening(t), backend' => backend,
             desired \/ ~backend', status = "connected" => ~sessions' /\ ~backend'
      PROVE  Kept'
  <2>1. /\ op'[t].pc = "persist" /\ op'[t].desired = desired /\ op'[t].status = status
        /\ Moves(t) /\ InPlace(t)' /\ Clear(t)'
    BY <1>0, <1>3, Ways, Decides DEF Moves, HeldTyped, Ours
  <2>2. ASSUME scope.threads = {t} PROVE Careful(t)'
    BY <1>0, <1>3, <2>1, <2>2 DEF Careful
  <2> QED
    BY <2>1, <2>2, MovesKept
<1>n. \/ DisableFails(t) \/ Removed(t) \/ Disable(t) \/ Reconcile(t)
      => ~Opening(t)
  BY <1>0 DEF InPlace, Goals, Looking, Opening, DisableFails, Removed, Disable, Reconcile
<1>4. CASE DisableFails(t)
  BY <1>3, <1>4, <1>n DEF DisableFails
<1>5. CASE Removed(t)
  <2>1. CASE Decide(t, FALSE, "connected") /\ CloseAndRevoke
    BY <1>3, <1>5, <1>n, <2>1 DEF Removed, CloseAndRevoke
  <2>2. CASE Decide(t, TRUE, "cleanup_required")
    <3>1. op'[t].status = "cleanup_required"
      BY <2>2, Decides
    <3>2. ~Decide(t, FALSE, "connected")
      <4>1. Decide(t, FALSE, "connected") => op'[t].status = "connected"
        BY Decides
      <4> QED
        BY <3>1, <4>1
    <3>3. UNCHANGED <<tailnet, access, backend, sessions>>
      BY <1>5, <3>2 DEF Removed
    <3> QED
      BY <1>3, <1>5, <1>n, <2>2, <3>3
  <2> QED
    BY <1>5, <2>1, <2>2 DEF Removed
<1>6. CASE Disable(t) /\ Decide(t, TRUE, "cleanup_required")
  <2>1. op'[t].pc = "persist"
    BY <1>6, Decides
  <2>2. ~Finish(t) /\ ~StepTo(t, "run")
    BY <1>0, <2>1, Ways DEF AtRest, StepTo, HeldTyped, Record
  <2> QED
    BY <1>3, <1>6, <1>n, <2>2 DEF Disable, CloseAndRevoke
<1>7. CASE Reconcile(t) /\ Decide(t, TRUE, "degraded")
  <2>1. op'[t].pc = "persist"
    BY <1>7, Decides
  <2>2. ~Finish(t)
    BY <2>1, Ways DEF AtRest
  <2> QED
    BY <1>3, <1>7, <1>n, <2>2 DEF Reconcile, CloseAndRevoke
<1>8. CASE (Disable(t) \/ Reconcile(t)) /\ Finish(t)
  <2>1. Moves(t) /\ op'[t] = AtRest /\ InPlace(t)' /\ Clear(t)'
    <3>1. tailnet' = tailnet
      BY <1>8 DEF Disable, Reconcile
    <3> QED
      BY <1>0, <1>8, <3>1, Ways DEF Moves, HeldTyped, Ours
  <2>2. op'[t].pc = "idle"
    BY <2>1 DEF AtRest
  <2>3. /\ ~StepTo(t, "run")
        /\ ~Decide(t, TRUE, "cleanup_required") /\ ~Decide(t, TRUE, "degraded")
    <3>1. StepTo(t, "run") => op'[t].pc = "run"
      BY <1>0 DEF StepTo, HeldTyped, Record
    <3> QED
      BY <2>2, <3>1, Ways, Decides
  <2>4. ASSUME scope.threads = {t} PROVE Careful(t)'
    <3>1. CASE Disable(t)
      <4>1. backend' = FALSE
        BY <2>3, <3>1 DEF Disable
      <4> QED
        BY <2>2, <4>1 DEF Careful
    <3>2. CASE Reconcile(t)
      <4>1. /\ op[t].pc = "reconcile" /\ access' = access
            /\ backend' = (backend \/ op[t].found = "enabled")
        BY <2>3, <3>2 DEF Reconcile
      <4>2. backend' => access'.desired \/ leftOpen'
        BY <1>0, <2>4, <4>1 DEF Careful, Opening, Looking
      <4> QED
        BY <2>2, <4>2 DEF Careful
    <3> QED
      BY <1>8, <3>1, <3>2
  <2> QED
    BY <2>1, <2>4, MovesKept
<1> QED
  BY <1>1, <1>2, <1>4, <1>5, <1>6, <1>7, <1>8 DEF Disable, Reconcile

LEMMA CallStep ==
  ASSUME Kept, UNCHANGED scope, leftOpen /\ backend' => leftOpen',
         NEW t \in Threads, t \in scope.threads, op[t].pc = "idle",
         NEW goal \in Goals, Observe(t, goal), UNCHANGED <<tailnet, state>>
  PROVE  Kept'
<1>1. Careful(t) => Careful(t)'
  <2>1. op'[t].pc = "status"
    BY Ways
  <2> QED
    BY <2>1 DEF state, Careful, Opening, Looking
<1>2. Moves(t) /\ InPlace(t)' /\ Clear(t)'
  BY Ways DEF Moves, Kept, HeldTyped, Ours
<1> QED
  BY <1>1, <1>2, MovesKept DEF Kept

(* An exception in the middle of it.                                       *)
LEMMA RaisesStep ==
  ASSUME Kept, UNCHANGED scope, NEW t \in Threads, t \in scope.threads, Raises(t)
  PROVE  Kept'
<1> USE DEF Kept
<1>0. HeldTyped /\ InPlace(t) /\ (scope.threads = {t} => Careful(t))
  BY DEF HeldTyped, InPlace
<1>1. Raise(t) /\ backend' \in {backend, FALSE}
      /\ leftOpen' = (backend' /\ (leftOpen \/ Opened(t)))
  BY DEF Raises, StepRaises, CommandRaises, RevokeRaises
<1>2. PICK o \in {AtRest, Dead} : op' = [op EXCEPT ![t] = o]
  BY <1>1 DEF Raise
<1>3. /\ op'[t] = o /\ op' = [s \in Threads |-> op'[s]]
      /\ \A s \in Threads : s # t => op'[s] = op[s]
  BY <1>0, <1>2, Holds
<1>4. /\ op'[t].pc \in {"idle", "dead"} /\ op'[t].fresh = FALSE /\ Record(op[t])'
  BY <1>3 DEF AtRest, Dead, Record
<1>5. /\ tailnet' = [up |-> tailnet'.up, id |-> tailnet'.id, mapping |-> tailnet'.mapping]
      /\ Ours => Ours'
  <2>1. CASE UNCHANGED tailnet
    BY <1>0, <2>1 DEF HeldTyped, Ours
  <2>2. CASE \E mapping \in Mapped \cup Unmapped : tailnet' = [tailnet EXCEPT !.mapping = mapping]
    <3>1. PICK mapping \in Mapped \cup Unmapped : tailnet' = [tailnet EXCEPT !.mapping = mapping]
      BY <2>2
    <3> QED
      BY <1>0, <3>1 DEF HeldTyped, Ours, Mapped, Unmapped
  <2> QED
    BY <2>1, <2>2 DEF Raises, StepRaises, CommandRaises, RevokeRaises
<1>6. Moves(t) /\ InPlace(t)' /\ Clear(t)'
  BY <1>3, <1>4, <1>5 DEF Moves, InPlace, Clear, Looking, Goals
<1>7. ASSUME scope.threads = {t} PROVE Careful(t)'
  <2>1. access' = access
    BY <1>1 DEF Raise
  <2>2. Opening(t) => Opened(t)
    BY DEF Opening, Opened
  <2>3. backend' /\ ~access'.desired => leftOpen'
    BY <1>0, <1>1, <1>7, <2>1, <2>2 DEF Careful
  <2> QED
    BY <1>4, <2>3 DEF Careful
<1> QED
  BY <1>6, <1>7, MovesKept

LEMMA KeptAlways == TailscaleSpec => []Kept
<1>1. Kept /\ [TailscaleNext]_tailscaleVars => Kept'
  <2> SUFFICES ASSUME Kept, [TailscaleNext]_tailscaleVars PROVE Kept'
    OBVIOUS
  <2>1. CASE UNCHANGED tailscaleVars
    <3>1. UNCHANGED <<scope, tailnet, access, backend, sessions, op, leftOpen>>
      BY <2>1 DEF tailscaleVars, state
    <3> QED
      BY <3>1 DEF Kept, HeldTyped, InPlace, Record, Clear, Ours, Careful, Opening
  <2>r. Recorded => UNCHANGED scope /\ (leftOpen /\ backend' => leftOpen')
    BY DEF Recorded
  <2>2. ASSUME NEW t \in Threads \cap scope.threads, Work(t), Recorded PROVE Kept'
    BY <2>r, <2>2, LookStep, EnableStep, DisableStep DEF Work
  <2>3. ASSUME Recorded, NEW t \in Callers \cap scope.threads,
               NEW goal \in {"show", "enable", "disable"}, Call(t, goal)
        PROVE  Kept'
    BY <2>r, <2>3, CallStep DEF Call, Threads, Goals
  <2>4. ASSUME Recorded, NEW t \in Reconcilers \cap scope.threads, StartReconcile(t)
        PROVE  Kept'
    BY <2>r, <2>4, CallStep DEF StartReconcile, Threads, Goals
  <2>5. ASSUME UNCHANGED scope, NEW t \in Threads \cap scope.threads, Raises(t) PROVE Kept'
    BY <2>5, RaisesStep
  <2> QED
    BY <2>1, <2>r, <2>2, <2>3, <2>4, <2>5, EnvironmentStep DEF TailscaleNext, Act
<1> QED
  BY InitKept, <1>1, PTL DEF TailscaleSpec

(* enable, disable and reconcile one after the other, through every        *)
(* failure they handle, change of the tailnet and restart, leave the       *)
(* Serve-only listener closed whenever remote_access says that access is   *)
(* not wanted, unless an exception ended an enable between the opening of  *)
(* the listener and the row, and nothing has closed it since.              *)
THEOREM ClosedWhenAlone == TailscaleSpec => []AloneClosedWhenOff
<1>1. Kept => AloneClosedWhenOff
  <2> SUFFICES ASSUME Kept, NEW t \in Threads, scope.threads = {t}, NobodyActs, ~access.desired,
                      ~leftOpen
               PROVE  ~backend
    BY DEF AloneClosedWhenOff, Alone, ClosedWhenOff
  <2>1. Careful(t) /\ op[t].pc \in {"idle", "dead"}
    BY DEF Kept, NobodyActs
  <2> QED
    BY <2>1 DEF Careful, Opening, Looking
<1> QED
  BY KeptAlways, <1>1, PTL

(* No `serve` command that enable or disable runs changes what the user    *)
(* has configured in Tailscale Serve, unless the user did so after the     *)
(* thread had read the inventory.                                          *)
THEOREM UsersOwn == TailscaleSpec => UserMappingKept
<1>1. ASSUME Kept
      PROVE  \A t \in Threads :
               /\ op[t].pc = "run" /\ op'[t].pc # "run"
               /\ op[t].fresh
               /\ tailnet.mapping \in {"mixed", "foreign"}
               => tailnet'.mapping = tailnet.mapping
  BY <1>1 DEF Kept, Clear, Ours
<1> QED
  BY KeptAlways, <1>1, PTL DEF UserMappingKept

(* When disable writes its row the listener is closed and no session of    *)
(* Tailscale origin is left unrevoked, if the thread is alone.             *)
THEOREM DisabledIsOver == TailscaleSpec => DisableEndsAccess
<1>1. ASSUME Kept
      PROVE  \A t \in Threads :
               Alone /\ op[t].pc = "persist" /\ op[t].status = "connected"
                 /\ op'[t].pc = "idle"
               => ~sessions /\ ~backend
  <2> SUFFICES ASSUME NEW t \in Threads, Alone, op[t].pc = "persist",
                      op[t].status = "connected"
               PROVE  ~sessions /\ ~backend
    OBVIOUS
  <2>1. scope.threads = {t}
    <3>1. t \in scope.threads
      BY <1>1 DEF Kept, HeldTyped, InPlace
    <3> QED
      BY <3>1 DEF Alone
  <2> QED
    BY <1>1, <2>1 DEF Kept, Careful
<1> QED
  BY KeptAlways, <1>1, PTL DEF DisableEndsAccess
=============================================================================
