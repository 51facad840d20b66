---------------------------- MODULE UserService ----------------------------
(***************************************************************************)
(* user-service: the users table and its backup, for one e-mail address.   *)
(* Addresses do not interact: users.email is unique and every query names  *)
(* one address or one id.  Who withdraws and registers again gets a new id *)
(* (AUTO_INCREMENT), so the address goes through a sequence of ids.        *)
(***************************************************************************)
EXTENDS Naturals

CONSTANT MaxUsers   \* registrations of the address, at most

Ids == 1..MaxUsers
NoId == 0

VARIABLES profile,   \* the id of the users row with the address, or NoId
          lastId,    \* the id handed out last
          backup,    \* the ids with a row in deleted_user
          restored   \* ids whose row an update has inserted again

userVars == <<profile, lastId, backup, restored>>

UserType == /\ profile \in Ids \cup {NoId}
            /\ lastId \in Ids \cup {NoId}
            /\ backup \in SUBSET Ids
            /\ restored \in SUBSET Ids

UserInit == /\ profile = NoId
            /\ lastId = NoId
            /\ backup = {}
            /\ restored = {}

\* createUser's save, after its findOne has seen no row: the unique e-mail
\* column lets one of two concurrent registrations through.
InsertUser == /\ profile = NoId
              /\ lastId < MaxUsers
              /\ lastId' = lastId + 1
              /\ profile' = lastId + 1
              /\ UNCHANGED <<backup, restored>>

\* deleteUser's transaction, for a row its findOne has seen before: the backup
\* is inserted and the row deleted, if it is still there.
MoveToBackup(id) == /\ backup' = backup \cup {id}
                    /\ profile' = IF profile = id THEN NoId ELSE profile
                    /\ UNCHANGED <<lastId, restored>>

\* updateUser's save: TypeORM looks the row up by its id once more, and inserts
\* the entity when it is gone; the address may be taken by then.
SaveUser(id) == \/ profile = id /\ UNCHANGED userVars
                \/ /\ profile = NoId
                   /\ profile' = id
                   /\ restored' = restored \cup {id}
                   /\ UNCHANGED <<lastId, backup>>
=============================================================================
