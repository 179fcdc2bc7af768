------------------------------ MODULE Settings ------------------------------
(***************************************************************************)
(* Saving the settings.  A screen of the wizard loads the configuration    *)
(* from three places (the camera's row, the rows of settings, the file     *)
(* secrets.json), changes the fields it owns, and saves the whole of it    *)
(* again, place by place.  Requests do this in parallel threads; each may  *)
(* end in an exception, or with the host, after any step.                  *)
(*                                                                         *)
(* A file name stands for an inode: a writer that has opened secrets.tmp   *)
(* keeps writing to its inode after somebody else has renamed it.  An      *)
(* edit is a number, and the fields of a screen move together.  A file     *)
(* between its truncation and its writing is Empty.  The camera's row is   *)
(* there (the first save, which inserts it, is left out), and the secrets  *)
(* of notifications and storage are part of their fields.                  *)
(***************************************************************************)
EXTENDS Integers

CONSTANTS
  Requests,  \* the threads
  MaxSaves,  \* bound: saves
  MaxPuts    \* bound: secrets stored

ASSUME SettingsAssumption == MaxSaves \in Nat /\ MaxPuts \in Nat

Plain   == {"camera", "tuning", "pet", "storage", "notify", "bridge"}
Fields  == Plain \cup {"password"}

Default == -1    \* a field of a configuration made from nothing
Unset   == -2    \* no such secret; an empty password
Values  == {Default, Unset} \cup 0 .. MaxSaves

Refs    == 0 .. MaxPuts
NoInode == -1
Empty   == [ref \in Refs |-> Unset]

VARIABLES
  row,       \* the fields in the database
  ref,       \* password_secret_ref of the camera
  content,   \* what each inode holds: the secrets by reference
  secretsAt, \* the inode of secrets.json
  tmpAt,     \* the inode of secrets.tmp
  minted,    \* references made (and inodes with them)
  edits,     \* saves begun
  req,
  wanted,    \* history: what the last save of each field's owner left
  shared,    \* history: fields whose last save was not alone
  met,       \* history: two saves have overlapped
  wasTorn    \* history: secrets.json has been empty

store   == <<row, ref, content, secretsAt, tmpAt, minted>>
history == <<wanted, shared, met, wasTorn>>
vars    == <<store, edits, req, history>>

Idle == [pc |-> "idle", edit |-> 0, owned |-> {}, cfg |-> [f \in Fields |-> Default],
         ref |-> 0, secrets |-> Empty, inode |-> NoInode, met |-> FALSE]

Init ==
  /\ row = [f \in Plain |-> 0]
  /\ ref = 0
  /\ content = [i \in Refs |-> IF i = 0 THEN [Empty EXCEPT ![0] = 0] ELSE Empty]
  /\ secretsAt = 0
  /\ tmpAt = NoInode
  /\ minted = 0
  /\ edits = 0
  /\ req = [r \in Requests |-> Idle]
  /\ wanted = [f \in Fields |-> 0]
  /\ shared = {}
  /\ met = FALSE
  /\ wasTorn = FALSE

Goto(r, pc) == req' = [req EXCEPT ![r].pc = pc]
Busy(r)     == req[r].pc # "idle"
Quiet       == ~\E r \in Requests : Busy(r)
Secrets     == content[secretsAt]

\* What a reader of all three places finds.
Stored(f) == IF f = "password" THEN Secrets[ref] ELSE row[f]

-----------------------------------------------------------------------------
(* The screens.                                                            *)

\* What each screen sets; the camera's password may be left as it is.
SaveCamera     == {{"camera"}, {"camera", "password"}}
SaveDetection  == {{"tuning"}}
SaveAppearance == {{"pet"}}
SaveStorage    == {{"storage"}}
SaveNotify     == {{"notify"}}
ImportConfig   == {Plain}

Screens == SaveCamera \cup SaveDetection \cup SaveAppearance \cup SaveStorage
             \cup SaveNotify \cup ImportConfig

(* Mutant: the detection screen builds its section from scratch.           *)
EditedAnew(cfg, owned, edit) ==
  [f \in Fields |-> IF f \in owned THEN edit
                    ELSE IF f = "pet" /\ owned = {"tuning"} THEN Default ELSE cfg[f]]

Edited(cfg, owned, edit) == [f \in Fields |-> IF f \in owned THEN edit ELSE cfg[f]]

Begin(r, owned) ==
  /\ ~Busy(r)
  /\ edits < MaxSaves
  /\ edits' = edits + 1
  /\ req' = [s \in Requests |->
               IF s = r THEN [Idle EXCEPT !.pc = "load row", !.owned = owned,
                                          !.edit = edits + 1, !.met = ~Quiet]
               ELSE [req[s] EXCEPT !.met = @ \/ Busy(s)]]
  /\ met' = (met \/ ~Quiet)
  /\ UNCHANGED <<store, wanted, shared, wasTorn>>

-----------------------------------------------------------------------------
(* load_config.                                                            *)

LoadRow(r) ==
  /\ req[r].pc = "load row"
  /\ req' = [req EXCEPT ![r].pc = "load settings", ![r].ref = ref,
                        ![r].cfg["camera"] = row["camera"]]
  /\ UNCHANGED <<store, edits, history>>

LoadSettings(r) ==
  /\ req[r].pc = "load settings"
  /\ req' = [req EXCEPT ![r].pc = "load secrets",
                        ![r].cfg = [f \in Fields |-> IF f \in Plain \ {"camera"} THEN row[f]
                                                     ELSE req[r].cfg[f]]]
  /\ UNCHANGED <<store, edits, history>>

\* A file that does not parse makes load_config give up, and the screen start
\* from the defaults.  Then the screen's own fields are set.
Loaded(r) ==
  IF Secrets = Empty
  THEN [f \in Fields |-> IF f = "password" THEN Unset ELSE Default]
  ELSE [req[r].cfg EXCEPT !["password"] = Secrets[req[r].ref]]

LoadSecrets(r) ==
  /\ req[r].pc = "load secrets"
  /\ req' = [req EXCEPT ![r].pc = "compare",
                        ![r].cfg = Edited(Loaded(r), req[r].owned, req[r].edit)]
  /\ UNCHANGED <<store, edits, history>>

-----------------------------------------------------------------------------
(* save_config.                                                            *)

Ended(r) == req' = [req EXCEPT ![r] = Idle]

\* The request is over: what it owned is what it left.
Leave(r) ==
  /\ Ended(r)
  /\ shared' = IF req[r].met THEN shared \cup req[r].owned ELSE shared \ req[r].owned

\* An exception (a database that stays locked, a full disk), or the host's end.
Abort(r) ==
  /\ Busy(r)
  /\ Leave(r)
  /\ wanted' = [f \in Fields |-> IF f \in req[r].owned THEN Stored(f) ELSE wanted[f]]
  /\ UNCHANGED <<store, edits, met, wasTorn>>

ReadRef(r) ==
  /\ req[r].pc = "compare"
  /\ req' = [req EXCEPT ![r].pc = "look", ![r].ref = ref]
  /\ UNCHANGED <<store, edits, history>>

\* The secret is stored again unless it is the one the row refers to.
Compare(r) ==
  /\ req[r].pc = "look"
  /\ LET password == req[r].cfg["password"] IN
     \/ password = Unset /\ Goto(r, "row")
     \/ password # Unset /\ Secrets # Empty
          /\ Goto(r, IF Secrets[req[r].ref] = password THEN "row" ELSE "put")
  /\ UNCHANGED <<store, edits, history>>

(* Mutant: the row refers to the secret before it is in the file.           *)
PutSecretLate(r) ==
  /\ req[r].pc = "put"
  /\ Secrets # Empty
  /\ minted < MaxPuts
  /\ minted' = minted + 1
  /\ ref' = minted + 1
  /\ req' = [req EXCEPT ![r].pc = "open", ![r].ref = minted + 1,
                ![r].secrets = [Secrets EXCEPT ![minted + 1] = req[r].cfg["password"]]]
  /\ UNCHANGED <<row, content, secretsAt, tmpAt, edits, history>>

\* put_secret loads the file again.
PutSecret(r) ==
  /\ req[r].pc = "put"
  /\ Secrets # Empty
  /\ minted < MaxPuts
  /\ minted' = minted + 1
  /\ req' = [req EXCEPT ![r].pc = "open", ![r].ref = minted + 1,
                ![r].secrets = [Secrets EXCEPT ![minted + 1] = req[r].cfg["password"]]]
  /\ UNCHANGED <<row, ref, content, secretsAt, tmpAt, edits, history>>

\* Opening truncates the temporary file that is there, or makes one.
Open(r) ==
  /\ req[r].pc = "open"
  /\ LET inode == IF tmpAt = NoInode THEN req[r].ref ELSE tmpAt IN
     /\ req' = [req EXCEPT ![r].pc = "write", ![r].inode = inode]
     /\ tmpAt' = inode
     /\ content' = [content EXCEPT ![inode] = Empty]
  /\ UNCHANGED <<row, ref, secretsAt, minted, edits, history>>

Write(r) ==
  /\ req[r].pc = "write"
  /\ content' = [content EXCEPT ![req[r].inode] = req[r].secrets]
  /\ Goto(r, "replace")
  /\ UNCHANGED <<row, ref, secretsAt, tmpAt, minted, edits, history>>

\* Whatever the name refers to by now is moved; if it is gone, that is an error.
Replace(r) ==
  /\ req[r].pc = "replace"
  /\ tmpAt # NoInode
  /\ secretsAt' = tmpAt
  /\ tmpAt' = NoInode
  /\ wasTorn' = (wasTorn \/ content[tmpAt] = Empty)
  /\ Goto(r, "row")
  /\ UNCHANGED <<row, ref, content, minted, edits, wanted, shared, met>>

UpdateCamera(r) ==
  /\ req[r].pc = "row"
  /\ row' = [row EXCEPT !["camera"] = req[r].cfg["camera"]]
  /\ ref' = req[r].ref
  /\ Goto(r, "bridge")
  /\ UNCHANGED <<content, secretsAt, tmpAt, minted, edits, history>>

\* put_setting: one transaction for each namespace.
Save(r, namespace, fields, next) ==
  /\ req[r].pc = namespace
  /\ row' = [f \in Plain |-> IF f \in fields THEN req[r].cfg[f] ELSE row[f]]
  /\ Goto(r, next)
  /\ UNCHANGED <<ref, content, secretsAt, tmpAt, minted, edits, history>>

SaveLast(r) ==
  /\ req[r].pc = "storage"
  /\ row' = [row EXCEPT !["storage"] = req[r].cfg["storage"]]
  /\ Leave(r)
  /\ wanted' = [f \in Fields |-> IF f \in req[r].owned THEN req[r].edit ELSE wanted[f]]
  /\ UNCHANGED <<ref, content, secretsAt, tmpAt, minted, edits, met, wasTorn>>

Step(r) ==
  \/ LoadRow(r) \/ LoadSettings(r) \/ LoadSecrets(r)
  \/ ReadRef(r) \/ Compare(r)
  \/ PutSecret(r) \/ Open(r) \/ Write(r) \/ Replace(r)
  \/ UpdateCamera(r)
  \/ Save(r, "bridge", {"bridge"}, "detection")
  \/ Save(r, "detection", {"tuning", "pet"}, "notify")
  \/ Save(r, "notify", {"notify"}, "storage")
  \/ SaveLast(r)
  \/ Abort(r)

Next ==
  \E r \in Requests : Step(r) \/ \E owned \in Screens : Begin(r, owned)

Spec == Init /\ [][Next]_vars

-----------------------------------------------------------------------------
(* What saving promises.                                                   *)

(* Every variable keeps its type, and the temporary file is never the one  *)
(* that counts (_save_secrets).                                            *)
TypeOK ==
  /\ row \in [Plain -> Values]
  /\ {ref, secretsAt, minted} \subseteq Refs
  /\ content \in [Refs -> [Refs -> Values]]
  /\ tmpAt \in (Refs \cup {NoInode}) \ {secretsAt}
  /\ edits \in 0 .. MaxSaves
  /\ req \in [Requests -> [pc : {"idle", "load row", "load settings", "load secrets",
                                 "compare", "look", "put", "open", "write", "replace",
                                 "row", "bridge", "detection", "notify", "storage"},
                           edit : 0 .. MaxSaves, owned : SUBSET Fields,
                           cfg : [Fields -> Values], ref : Refs,
                           secrets : [Refs -> Values], inode : Refs \cup {NoInode},
                           met : BOOLEAN]]
  /\ wanted \in [Fields -> Values] /\ shared \subseteq Fields
  /\ met \in BOOLEAN /\ wasTorn \in BOOLEAN

(* As long as saves follow each other, the camera's reference resolves and *)
(* secrets.json can be read, at every moment and whatever save was cut     *)
(* short (put_secret before the row, _save_secrets with its rename).       *)
ReferenceResolves == ~met => Secrets[ref] # Unset

(* A save that was alone is kept, also by the saves after it that are not  *)
(* alone: no screen disturbs a field it does not own, unless one of them   *)
(* found secrets.json half written (the comment at save-detection tells of *)
(* screens that wiped what they do not own).                               *)
EditsKept ==
  Quiet /\ ~wasTorn =>
    \A f \in Fields \ shared : Stored(f) = wanted[f]
=============================================================================
