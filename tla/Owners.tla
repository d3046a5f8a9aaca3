--------------------------------- MODULE Owners ---------------------------------
(***************************************************************************)
(* functions/src/shareholders.js: the files of shareholders.  A phone      *)
(* number, an identification and a sign-in belong to at most one           *)
(* shareholder: as at the reception (Registry) they are reserved in        *)
(* unique_keys, and move with the file.  Names, addresses and notes, and   *)
(* the copies of a name on holdings, are left out.                         *)
(***************************************************************************)
EXTENDS Shares, Users, Registry

CONSTANTS
    OwnerPhones,
    Identifications, IdKey   \* type and number as written, and what is reserved for them

IdKeys == {IdKey[id] : id \in Identifications}

ASSUME OwnersAssumption ==
    /\ IdKey \in [Identifications -> IdKeys]
    /\ Absent \notin Holders \cup OwnerPhones \cup Identifications \cup IdKeys \cup People

VARIABLES
    files,                              \* shareholders: phoneNumber, idType with idNumber, linkedUid
    ownerPhoneKeys, idKeys, signInKeys  \* unique_keys, by kind: whose document it names

fileVars == <<files, ownerPhoneKeys, idKeys, signInKeys>>

NoFile == [phone |-> Absent, identification |-> Absent, uid |-> Absent]

OwnersInit ==
    /\ files = [h \in Holders |-> NoFile]
    /\ ownerPhoneKeys = [p \in OwnerPhones |-> Absent]
    /\ idKeys = [k \in IdKeys |-> Absent]
    /\ signInKeys = [u \in People |-> Absent]

KeyOfId(id) == IF id = Absent THEN Absent ELSE IdKey[id]

\* Nobody, or the shareholder itself, has the key.
FreeForOwner(keys, key, h) == key # Absent => keys[key] \in {Absent, h}

\* reservations: the file's keys follow its phone number and identification.
KeysMove(h, phone, id) ==
    LET before == files[h]
    IN  /\ FreeForOwner(ownerPhoneKeys, phone, h)
        /\ FreeForOwner(idKeys, KeyOfId(id), h)
        /\ ownerPhoneKeys' = Reserved(ownerPhoneKeys, before.phone, phone, h)
        /\ idKeys' = Reserved(idKeys, KeyOfId(before.identification), KeyOfId(id), h)

RegisterShareholder(h, phone, id) ==
    /\ CreateShareholder(h)
    /\ KeysMove(h, phone, id)
    /\ files' = [files EXCEPT ![h].phone = phone, ![h].identification = id]
    /\ UNCHANGED signInKeys

UpdateShareholder(h, phone, id) ==
    /\ shareholders[h] # "none"
    /\ phone # files[h].phone \/ id # files[h].identification
    /\ KeysMove(h, phone, id)
    /\ files' = [files EXCEPT ![h].phone = phone, ![h].identification = id]
    /\ UNCHANGED <<signInKeys, financeVars, ownershipVars>>

\* uid: Absent unlinks.
LinkShareholderAccount(h, uid) ==
    /\ shareholders[h] # "none"
    /\ files[h].uid # uid
    /\ uid # Absent => profiles[uid].exists
    /\ FreeForOwner(signInKeys, uid, h)
    /\ signInKeys' = Reserved(signInKeys, files[h].uid, uid, h)
    /\ files' = [files EXCEPT ![h].uid = uid]
    /\ UNCHANGED <<ownerPhoneKeys, idKeys, financeVars, ownershipVars>>

\* A new shareholder, with or without details.
Registration(phones, ids) ==
    \E h \in Holders, phone \in phones \cup {Absent}, id \in ids \cup {Absent} :
        RegisterShareholder(h, phone, id)

FileStep ==
    \E h \in Holders :
        \/ \E phone \in OwnerPhones \cup {Absent}, id \in Identifications \cup {Absent} :
              UpdateShareholder(h, phone, id)
        \/ \E uid \in People \cup {Absent} : LinkShareholderAccount(h, uid)

-----------------------------------------------------------------------------
(* Properties *)

\* Two shareholders never share a phone number, an identification however it is
\* written, or a sign-in; what a file gave up is free again; and a sign-in is a user's.
OwnersKnown ==
    /\ \A h \in Holders :
          /\ shareholders[h] = "none" => files[h] = NoFile
          /\ files[h].uid # Absent => profiles[files[h].uid].exists
    /\ \A p \in OwnerPhones, h \in Holders : ownerPhoneKeys[p] = h <=> files[h].phone = p
    /\ \A k \in IdKeys, h \in Holders : idKeys[k] = h <=> KeyOfId(files[h].identification) = k
    /\ \A u \in People, h \in Holders : signInKeys[u] = h <=> files[h].uid = u
=============================================================================
