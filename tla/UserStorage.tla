----------------------------- MODULE UserStorage -----------------------------
(***************************************************************************)
(* What StorageUtility keeps for one user (a session, or the state of an   *)
(* authorization request): a JSON object under                             *)
(* solidClientAuthenticationUser:<id>, here a function from the fields     *)
(* that are present to their values.  The operators say what an operation  *)
(* makes of the object; that reading and writing it back are two steps is  *)
(* the business of NodeSession.                                            *)
(***************************************************************************)
CONSTANT Undefined   \* JavaScript's undefined: a field that is not there

\* Nothing is stored: what deleteAllUserData leaves, read as {}.
NoData == [field \in {} |-> Undefined]

\* A stored value that is not JSON, written as an object with a field that the
\* code never writes.
Corrupted == [notJson |-> TRUE]

\* getUserData throws on a value that is not JSON.
Readable(data) == "notJson" \notin DOMAIN data

\* Mutant: the undefined fields are kept.
KeepsUndefined(object) == object

\* JSON.stringify leaves out the fields whose value is undefined.
Stringified(object) ==
  [field \in {f \in DOMAIN object : object[f] # Undefined} |-> object[field]]

\* { ...old, ...new }
Merged(old, new) ==
  [field \in DOMAIN old \cup DOMAIN new |->
     IF field \in DOMAIN new THEN new[field] ELSE old[field]]

GetForUser(data, field) ==
  IF field \in DOMAIN data THEN data[field] ELSE Undefined

\* Mutant: the new values replace the whole object.
SetAnew(data, values) == Stringified(values)

\* What is stored is kept, except the fields that values names; data that
\* cannot be read is written over.
SetForUser(data, values) ==
  Stringified(Merged(IF Readable(data) THEN data ELSE NoData, values))
=============================================================================
