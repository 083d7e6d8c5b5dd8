------------------------------- MODULE Provision -------------------------------
(***************************************************************************)
(* How the embedding model comes onto the machine                          *)
(* (crates/basemyai/src/provision/embedder.rs): every program that needs   *)
(* it looks for the files in the one cache of the user, and fetches them   *)
(* when it may.  Nothing keeps two programs from fetching at once; both    *)
(* then write the temporary file of the same name.                         *)
(*                                                                         *)
(* The directory is names pointing at files (inodes), because a rename     *)
(* moves a file that another program may have open.  A file is the set of  *)
(* its pieces that were written; the bytes a program downloads are checked *)
(* in memory, so what it writes is right, and only where it is cut or      *)
(* truncated it is not whole.                                              *)
(***************************************************************************)
EXTENDS Integers, FiniteSets

CONSTANTS
    Programs,   \* the programs of one user: servers, the command line
    FILES,      \* number of REQUIRED_MODEL_FILES
    PIECES,     \* bound: in how many writes fs::write writes a file
    Consent,    \* the programs started with consent_to_fetch
    NoFile

ModelFiles == 1 .. FILES
Pieces     == 1 .. PIECES
Inodes     == 1 .. 2 * FILES + Cardinality(Programs)

VARIABLES
    dest, tmp,  \* the file of each name, or NoFile
    content,    \* what each file holds
    config,     \* provision.json: "none", "torn" or "saved"
    pc,         \* where each program is
    file,       \* the model file it fetches
    fd, done,   \* the file it writes, and the pieces it has written
    raced       \* history: files truncated while another program was bringing them

vars == <<dest, tmp, content, config, pc, file, fd, done, raced>>

Init ==
    /\ dest = [f \in ModelFiles |-> NoFile] /\ tmp = dest
    /\ content = [i \in Inodes |-> {}]
    /\ config = "none"
    /\ pc = [p \in Programs |-> "off"]
    /\ file = [p \in Programs |-> 1]
    /\ fd = [p \in Programs |-> NoFile] /\ done = [p \in Programs |-> 0]
    /\ raced = {}

-----------------------------------------------------------------------------
\* model_present: the files exist; what is in them is not looked at.
model_present == \A f \in ModelFiles : dest[f] # NoFile

\* load_persisted_provision: a configuration that parses, and the model is there.
load_persisted_provision == config = "saved" /\ model_present

\* provision_inner, up to where it knows whether it has to fetch.
provision_inner(p) ==
    /\ pc[p] = "off"
    /\ pc' = [pc EXCEPT ![p] = IF load_persisted_provision THEN "ready"
                               ELSE IF model_present THEN "save"
                               ELSE IF p \in Consent THEN "fetch" ELSE "failed"]
    /\ file' = [file EXCEPT ![p] = 1]
    /\ UNCHANGED <<dest, tmp, content, config, fd, done, raced>>

\* download_and_verify, the download: an error of the network or the server, or
\* bytes of another SHA-256, end the call before anything is written.
Download(p) ==
    /\ pc[p] = "fetch"
    /\ \E next \in {"create", "failed"} : pc' = [pc EXCEPT ![p] = next]
    /\ UNCHANGED <<dest, tmp, content, config, file, fd, done, raced>>

Fresh == CHOOSE i \in Inodes :
            \A f \in ModelFiles, p \in Programs : i \notin {dest[f], tmp[f], fd[p]}

\* Another program is between the opening of this file and its renaming.
Busy(f) == \E q \in Programs : pc[q] \in {"write", "rename"} /\ file[q] = f

\* (Faulty: the file is written in its place.)
CreateInPlace(p) ==
    LET f == file[p]
        i == IF dest[f] = NoFile THEN Fresh ELSE dest[f]
    IN /\ pc[p] = "create"
       /\ dest' = [dest EXCEPT ![f] = i]
       /\ tmp' = [tmp EXCEPT ![f] = i]
       /\ content' = [content EXCEPT ![i] = {}]
       /\ raced' = IF Busy(f) THEN raced \cup {i} ELSE raced \ {i}
       /\ fd' = [fd EXCEPT ![p] = i] /\ done' = [done EXCEPT ![p] = 0]
       /\ pc' = [pc EXCEPT ![p] = "write"]
       /\ UNCHANGED <<config, file>>

\* fs::write of the temporary file: it opens the file of that name, if there is
\* one, and truncates it,
Create(p) ==
    LET f == file[p]
        i == IF tmp[f] = NoFile THEN Fresh ELSE tmp[f]
    IN /\ pc[p] = "create"
       /\ tmp' = [tmp EXCEPT ![f] = i]
       /\ content' = [content EXCEPT ![i] = {}]
       /\ raced' = IF Busy(f) THEN raced \cup {i} ELSE raced \ {i}
       /\ fd' = [fd EXCEPT ![p] = i] /\ done' = [done EXCEPT ![p] = 0]
       /\ pc' = [pc EXCEPT ![p] = "write"]
       /\ UNCHANGED <<dest, config, file>>

\* and writes on where it left off, whatever the others did to the file.
Write(p) ==
    /\ pc[p] = "write"
    /\ content' = [content EXCEPT ![fd[p]] = @ \cup {done[p] + 1}]
    /\ done' = [done EXCEPT ![p] = @ + 1]
    /\ IF done'[p] = PIECES
       THEN pc' = [pc EXCEPT ![p] = "rename"] /\ fd' = [fd EXCEPT ![p] = NoFile]
       ELSE UNCHANGED <<pc, fd>>
    /\ UNCHANGED <<dest, tmp, config, file, raced>>

\* The file that bears the temporary name now goes in place; there may be none any more.
Rename(p) ==
    LET f == file[p]
    IN /\ pc[p] = "rename"
       /\ IF tmp[f] = NoFile
          THEN pc' = [pc EXCEPT ![p] = "failed"] /\ UNCHANGED <<dest, tmp, file>>
          ELSE /\ dest' = [dest EXCEPT ![f] = tmp[f]]
               /\ tmp' = [tmp EXCEPT ![f] = NoFile]
               /\ IF f = FILES THEN pc' = [pc EXCEPT ![p] = "save"] /\ UNCHANGED file
                  ELSE pc' = [pc EXCEPT ![p] = "fetch"] /\ file' = [file EXCEPT ![p] = f + 1]
       /\ done' = [done EXCEPT ![p] = 0]
       /\ UNCHANGED <<content, config, fd, raced>>

\* save_provision truncates provision.json and writes it; an error is ignored.
Save(p) ==
    /\ pc[p] = "save"
    /\ \/ config' = "torn" /\ pc' = [pc EXCEPT ![p] = "saving"]
       \/ UNCHANGED config /\ pc' = [pc EXCEPT ![p] = "ready"]
    /\ UNCHANGED <<dest, tmp, content, file, fd, done, raced>>

Saved(p) ==
    /\ pc[p] = "saving"
    /\ config' \in {"saved", config}
    /\ pc' = [pc EXCEPT ![p] = "ready"]
    /\ UNCHANGED <<dest, tmp, content, file, fd, done, raced>>

\* The program is killed, its disk is full, or it ends; it may be started again.
End(p) ==
    /\ pc[p] # "off"
    /\ pc' = [pc EXCEPT ![p] = "off"]
    /\ fd' = [fd EXCEPT ![p] = NoFile] /\ done' = [done EXCEPT ![p] = 0]
    /\ UNCHANGED <<dest, tmp, content, config, file, raced>>

Step(p) ==
    \/ provision_inner(p) \/ Download(p) \/ Create(p) \/ Write(p) \/ Rename(p)
    \/ Save(p) \/ Saved(p)

Next == \E p \in Programs : Step(p) \/ End(p)

Spec == Init /\ [][Next]_vars

-----------------------------------------------------------------------------
Whole(i) == content[i] = Pieces

(* A model file in its place is whole, so that its mere presence may be    *)
(* taken for a checked download, unless two programs wrote it at once; and *)
(* a program that was given the model finds all its files                  *)
(* (provision/embedder.rs).                                                *)
ProvisionedIsWhole ==
    /\ \A f \in ModelFiles : dest[f] # NoFile => Whole(dest[f]) \/ dest[f] \in raced
    /\ \A p \in Programs : pc[p] = "ready" => model_present
===============================================================================
