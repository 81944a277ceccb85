----------------------------- MODULE UploadService -----------------------------
(*****************************************************************************)
(* Pictures: the file goes to the object store, then a row with its key      *)
(* and its ETag to table uploaded_object.  A common file, an icon or a       *)
(* banner is stored under the time and its name, a ticker's picture under    *)
(* its name alone, so that a new one takes the place of the old.             *)
(*****************************************************************************)
EXTENDS Gateway

CONSTANTS
  Files,       (* contents; the ETag of an object stands for its content   *)
  LastTime     (* bound: milliseconds the clock counts                     *)

ASSUME UploadAssumption == LastTime \in Nat /\ None \notin Files \union {"upload"}

VARIABLES
  object,   (* object[k]: the content stored under key k, or None          *)
  upload,   (* table uploaded_object, by id                                *)
  clock,
  crossed   (* ghost: keys two uploads were between their calls with       *)

uploadVars == <<object, upload, clock, crossed>>

(* The folders; the routes "banner" and "icon" put the time before the       *)
(* name like the common one.  One file name: others never meet.              *)
Stamped == {"common", "icon", "banner"}
Keys == (Stamped \X (0 .. LastTime)) \union {<<"ticker", 0>>}

UploadInit ==
  /\ object = [k \in Keys |-> None]
  /\ upload = << >>
  /\ clock  = 0
  /\ crossed = {}

Tick ==
  /\ clock < LastTime
  /\ clock' = clock + 1
  /\ UNCHANGED <<gatewayVars, object, upload, crossed>>

KeyOf(folder) == IF folder = "ticker" THEN <<folder, 0>> ELSE <<folder, clock>>

Upload(r, token, folder, file) ==
  /\ Arrive(r, "upload", token, {"Admin", "DAServer"}, folder,
            [pc |-> "put", key |-> KeyOf(folder), file |-> file])
  /\ UNCHANGED uploadVars

(* A slip: the row is there before the object.                               *)
PutLater(r) ==
  /\ At(r, "upload", "put")
  /\ Go(r, "row")
  /\ UNCHANGED <<role, tokens, call, faults, uploadVars>>

PutObject(r) ==
  /\ At(r, "upload", "put")
  /\ object' = [object EXCEPT ![frame[r].key] = frame[r].file]
  /\ Go(r, "row")
  /\ crossed' = IF \E s \in Requests : At(s, "upload", "row")
                                        /\ frame[s].key = frame[r].key
                  THEN crossed \union {frame[r].key} ELSE crossed
  /\ UNCHANGED <<role, tokens, call, faults, upload, clock>>

SaveUpload(r) ==
  /\ At(r, "upload", "row")
  /\ upload' = Append(upload, [key |-> frame[r].key, file |-> frame[r].file])
  /\ AnswerOk(r)
  /\ Go(r, "done")
  /\ UNCHANGED <<role, tokens, faults, object, clock, crossed>>

UploadRaises(r) ==
  /\ \E pc \in {"put", "row"} : At(r, "upload", pc)
  /\ Fault
  /\ Throw(r, "QueryFailedError")
  /\ UNCHANGED <<role, tokens, frame, uploadVars>>

UploadStep(r) ==
  \/ \E t \in Emails \union {None}, f \in Stamped \union {"ticker"}, b \in Files :
       Upload(r, t, f, b)
  \/ PutObject(r) \/ SaveUpload(r) \/ UploadRaises(r)

-----------------------------------------------------------------------------
(* Properties *)

UploadTypeOK ==
  /\ object \in [Keys -> Files \union {None}]
  /\ \A i \in DOMAIN upload : upload[i].key \in Keys /\ upload[i].file \in Files
  /\ clock \in 0 .. LastTime

(* The last row of a key is of what the store holds under it, unless an      *)
(* upload of another content has put it there and not stored its row, or     *)
(* never will; or unless two uploads to the key crossed.                     *)
RowIsTheObject ==
  \A k \in Keys \ crossed :
    LET rows == {i \in DOMAIN upload : upload[i].key = k} IN
    \A i \in rows :
      \/ \E j \in rows : j > i
      \/ object[k] = upload[i].file
      \/ \E r \in Requests : /\ call[r].route = "upload"
                            /\ frame[r].key = k /\ frame[r].pc = "row"
                            /\ frame[r].file = object[k]
===============================================================================
