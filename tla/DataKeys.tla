------------------------------- MODULE DataKeys -------------------------------
(***************************************************************************)
(* Encryption at rest: values of encrypted columns under data keys, data   *)
(* keys wrapped by key-encryption keys (KEKs), and the commands that       *)
(* rotate the data key, re-wrap the data keys and so let a KEK be          *)
(* replaced while the application runs.  Each process keeps the data keys  *)
(* it unwrapped, and the active one, for as long as it lives.              *)
(*                                                                         *)
(* Grain of atomicity.  Each SQL statement is a step; keys.rewrap is one   *)
(* transaction over all data keys.  Any process or command may die between *)
(* two steps.  The operator follows the runbook, one procedure at a time:  *)
(* a KEK is prepended, deployed, the keys re-wrapped, the old one removed. *)
(***************************************************************************)
EXTENDS Integers, Sequences, FiniteSets

CONSTANTS
    Processes,   \* of the application
    Columns,     \* encrypted values in the database
    Dev,         \* the KEK derived from SECRET_KEY
    Kms,         \* the KEK in the KMS
    Keks,        \* those given in FIELD_ENCRYPTION_KEYS
    MaxDataKeys, \* bound on the data keys created
    MaxWrites    \* bound on the values written

ASSUME DataKeysAssumption ==
    /\ Dev # Kms /\ {Dev, Kms} \cap Keks = {}
    /\ MaxDataKeys \in Nat /\ MaxWrites \in Nat

VARIABLES
    careful,  \* no value is written while the rotation has it in hand
    keyring,  \* the DataKey rows: [active, kek]
    stored,   \* column -> [plain, key]; key 0: nothing is stored
    settings, \* FIELD_ENCRYPTION_KEYS and KMS_KEY_ID: [first, listed]
    running,  \* process -> the settings it started with, its caches, its step
    command,  \* the management command that runs
    written   \* column -> the value last written (not in the code)

keyVars == <<careful, keyring, stored, settings, running, command, written>>

NotRunning == [op |-> "none"]
Started == [with |-> settings, cache |-> {}, active |-> 0, creates |-> "no"]

KeysInit ==
    /\ careful \in BOOLEAN
    /\ keyring = <<>>
    /\ stored = [c \in Columns |-> [plain |-> 0, key |-> 0]]
    /\ settings = [first |-> Dev, listed |-> {}]
    /\ running = [p \in Processes |-> Started]
    /\ command = NotRunning
    /\ written = [c \in Columns |-> 0]

-----------------------------------------------------------------------------
(* Providers. *)

(* Mutant of Unwraps: the derived KEK goes when real ones are configured.    *)
UnwrapsListed(with, kek) == kek \in with.listed \/ kek = with.first

(* LocalKeyProvider.unwrap, provider_for: the derived KEK always unwraps, a  *)
(* local one while it is listed, the KMS while it is the provider.           *)
Unwraps(with, kek) == kek = Dev \/ kek \in with.listed \/ (kek = Kms /\ with.first = Kms)

(* _load_dek: from the cache of the process or by unwrapping.                *)
Loads(proc, key) == key \in proc.cache \/ Unwraps(proc.with, keyring[key].kek)

(* The newest active row.                                                    *)
ActiveRows == {k \in DOMAIN keyring : keyring[k].active}
Newest == CHOOSE k \in ActiveRows : \A l \in ActiveRows : l <= k

(* create_data_key: the others are put out of use, then the new one is saved.*)
Deactivated == [k \in DOMAIN keyring |-> [keyring[k] EXCEPT !.active = FALSE]]
WithNewKey(with) == Append(keyring, [active |-> TRUE, kek |-> with.first])

-----------------------------------------------------------------------------
(* A process of the application. *)

(* active_data_key finds none at first use, and creates one; two processes  *)
(* may do so at once.                                                        *)
FirstUse(p) ==
    /\ running[p].creates = "no" /\ running[p].active = 0 /\ ActiveRows = {}
    /\ running' = [running EXCEPT ![p].creates = "found none"]
    /\ UNCHANGED <<careful, keyring, stored, settings, command, written>>

FirstUseClears(p) ==
    /\ running[p].creates = "found none" /\ Len(keyring) < MaxDataKeys
    /\ keyring' = Deactivated
    /\ running' = [running EXCEPT ![p].creates = "cleared"]
    /\ UNCHANGED <<careful, stored, settings, command, written>>

FirstUseEnds(p) ==
    /\ running[p].creates = "cleared" /\ Len(keyring) < MaxDataKeys
    /\ keyring' = WithNewKey(running[p].with)
    /\ running' = [running EXCEPT ![p].creates = "no", ![p].cache = @ \cup {Len(keyring')},
                                  ![p].active = Len(keyring')]
    /\ UNCHANGED <<careful, stored, settings, command, written>>

(* The rotation has read this value and not yet written it back.             *)
InHand(c) == IF command.op = "rotating" THEN command.holds = c ELSE FALSE

(* encrypt_str, EncryptedTextField.get_prep_value: under the active key that *)
(* the process remembers, if it remembers one.                               *)
Writes(p, c) ==
    LET key == IF running[p].active # 0 THEN running[p].active ELSE Newest IN
    /\ running[p].creates = "no"
    /\ running[p].active # 0 \/ ActiveRows # {}
    /\ Loads(running[p], key)
    /\ careful => ~InHand(c)
    /\ written[c] < MaxWrites
    /\ stored' = [stored EXCEPT ![c] = [plain |-> written[c] + 1, key |-> key]]
    /\ written' = [written EXCEPT ![c] = @ + 1]
    /\ running' = [running EXCEPT ![p].active = key, ![p].cache = @ \cup {key}]
    /\ UNCHANGED <<careful, keyring, settings, command>>

(* decrypt_str.                                                              *)
ReadsBack(p, c) ==
    LET key == stored[c].key IN
    /\ key # 0 /\ key \notin running[p].cache /\ Loads(running[p], key)
    /\ running' = [running EXCEPT ![p].cache = @ \cup {key}]
    /\ UNCHANGED <<careful, keyring, stored, settings, command, written>>

(* The process dies, or is deployed anew.                                    *)
Restarts(p) ==
    /\ running[p] # Started
    /\ running' = [running EXCEPT ![p] = Started]
    /\ UNCHANGED <<careful, keyring, stored, settings, command, written>>

-----------------------------------------------------------------------------
(* The operator. *)
Deployed == \A p \in Processes : running[p].with = settings
AtRest == Deployed /\ command = NotRunning

(* keys rotate: a new data key ...                                           *)
Rotates ==
    /\ AtRest /\ Len(keyring) < MaxDataKeys
    /\ keyring' = Deactivated
    /\ command' = [op |-> "creating"]
    /\ UNCHANGED <<careful, stored, settings, running, written>>

RotatesTo ==
    /\ command.op = "creating" /\ Len(keyring) < MaxDataKeys
    /\ keyring' = WithNewKey(settings)
    /\ command' = [op |-> "rotating", todo |-> Columns, holds |-> Dev, plain |-> 0, key |-> 0]
    /\ UNCHANGED <<careful, stored, settings, running, written>>

(* ... row by row, the value is read ...                                     *)
RotateRead(c) ==
    /\ command.op = "rotating" /\ command.holds = Dev /\ c \in command.todo
    /\ command' = IF stored[c].key = 0 THEN [command EXCEPT !.todo = @ \ {c}]
                  ELSE [command EXCEPT !.holds = c, !.plain = stored[c].plain]
    /\ stored[c].key # 0 => Unwraps(settings, keyring[stored[c].key].kek)
    /\ UNCHANGED <<careful, keyring, stored, settings, running, written>>

(* ... and what was read is written back under the key that is active when   *)
(* the first row is, ...                                                     *)
RotateSave ==
    /\ command.op = "rotating" /\ command.holds # Dev
    /\ command.key # 0 \/ ActiveRows # {}
    /\ LET key == IF command.key # 0 THEN command.key ELSE Newest IN
       /\ stored' = [stored EXCEPT ![command.holds] = [plain |-> command.plain, key |-> key]]
       /\ command' = [command EXCEPT !.todo = @ \ {command.holds}, !.holds = Dev, !.key = key]
    /\ UNCHANGED <<careful, keyring, settings, running, written>>

(* ... which may be one of its own, if a process at first use cleared it.    *)
RotateAgain ==
    /\ command.op = "rotating" /\ command.holds # Dev
    /\ command.key = 0 /\ ActiveRows = {} /\ Len(keyring) < MaxDataKeys
    /\ keyring' = WithNewKey(settings)
    /\ UNCHANGED <<careful, stored, settings, running, command, written>>

(* The command has ended, or died on the way.                                *)
CommandEnds ==
    /\ command # NotRunning
    /\ command' = NotRunning
    /\ UNCHANGED <<careful, keyring, stored, settings, running, written>>

(* keys rewrap: every data key, in use or not.                               *)
Rewrapped == [k \in DOMAIN keyring |-> [keyring[k] EXCEPT !.kek = settings.first]]

Rewraps ==
    /\ AtRest
    /\ \A k \in DOMAIN keyring : Unwraps(settings, keyring[k].kek)
    /\ keyring' = Rewrapped
    /\ UNCHANGED <<careful, stored, settings, running, command, written>>

(* A KEK is prepended or KMS_KEY_ID set. The first data key exists by then;  *)
(* from the KMS no way leads back, as it unwraps only while it is in use.    *)
PrependsKek(kek) ==
    /\ AtRest /\ ActiveRows # {} /\ \A p \in Processes : running[p].creates = "no"
    /\ settings.first # Kms /\ kek \notin settings.listed
    /\ settings' = [first |-> kek, listed |-> settings.listed \cup ({kek} \ {Kms})]
    /\ UNCHANGED <<careful, keyring, stored, running, command, written>>

(* do_status: data keys that are not wrapped by the active KEK.              *)
StaleKeys == {k \in DOMAIN keyring : keyring[k].kek # settings.first}

RemovesOldKek ==
    /\ AtRest /\ StaleKeys = {} /\ \A p \in Processes : running[p].creates = "no"
    /\ settings.listed \ {settings.first} # {}
    /\ settings' = [settings EXCEPT !.listed = @ \cap {settings.first}]
    /\ UNCHANGED <<careful, keyring, stored, running, command, written>>

KeysNext ==
    \/ \E p \in Processes :
          \/ FirstUse(p) \/ FirstUseClears(p) \/ FirstUseEnds(p) \/ Restarts(p)
          \/ \E c \in Columns : Writes(p, c) \/ ReadsBack(p, c)
    \/ Rotates \/ RotatesTo \/ RotateSave \/ RotateAgain \/ CommandEnds \/ Rewraps \/ RemovesOldKek
    \/ \E c \in Columns : RotateRead(c)
    \/ \E kek \in Keks \cup {Kms} : PrependsKek(kek)

KeysSpec == KeysInit /\ [][KeysNext]_keyVars

-----------------------------------------------------------------------------
(* Correctness. *)

KeysTypeOK ==
    /\ careful \in BOOLEAN
    /\ keyring \in Seq([active : BOOLEAN, kek : Keks \cup {Dev, Kms}])
    /\ stored \in [Columns -> [plain : 0..MaxWrites, key : 0..MaxDataKeys]]
    /\ settings \in [first : Keks \cup {Dev, Kms}, listed : SUBSET Keks]

(* OPERATIONS.md: a KEK is replaced with "No downtime": at any moment of the *)
(* procedures, whatever died on the way, every process of the application    *)
(* can decrypt every value, and so can one that starts now.                  *)
Readable ==
    \A c \in Columns : stored[c].key # 0 =>
       /\ \A p \in Processes : Loads(running[p], stored[c].key)
       /\ Unwraps(settings, keyring[stored[c].key].kek)

(* do_rotate: "only ciphertext changes, never plaintext" - unless a value is *)
(* written after the command has read it and before it writes it back.       *)
WritesKept == careful => \A c \in Columns : stored[c].plain = written[c]

(* Both of them.                                                             *)
KeysHold == Readable /\ WritesKept
=============================================================================
