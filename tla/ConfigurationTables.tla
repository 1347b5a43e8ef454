------------------------ MODULE ConfigurationTables -------------------------
(***************************************************************************)
(* The tables that hold how the system is set up (prisma/schema), shared   *)
(* by start-up, the settings and the administration of bank products.      *)
(* Names, rates and descriptions nobody decides on are left out.           *)
(***************************************************************************)
EXTENDS Naturals, Sequences, FiniteSets, FiniteSetsExt, TLC, Encryption

CONSTANTS
    Texts,          \* the texts a credential, or a property, can be
    Names,          \* names of network managers; a DTO's may be empty
    Codes,          \* codes of banks
    BankNames       \* names of banks

VARIABLE db         \* the tables

NULL == <<>>        \* a foreign key that names no row

Field == [form : {"absent", "plain", "cipher"}, text : Texts \cup {""}]

Bank == [code : Codes, name : BankNames]

Rate == [currency : {"USD", "VES"}, rate : Nat]
Property == [key : Texts, value : Texts]

BankProduct == [id : (Codes \X STRING) \X Nat, bank : Codes, name : STRING, is_active : BOOLEAN,
                api_url : Field, api_key : Field, api_secret : Field,
                configurations : Seq(Rate), properties : SUBSET Property]

NetworkManager == [id : Names \X Nat, name : Names,
                   api_url : Field, api_key : Field, api_secret : Field]

Isp == [id : Names \X Nat, name : Names,
        network_manager_id : {NULL} \cup (Names \X Nat), is_active : BOOLEAN]

IspConfiguration == [id : (Names \X Nat) \X Nat, isp_id : Names \X Nat,
                     instance_token : Field]

EmptyDb == [global_configuration |-> {}, commission_tiers |-> {}, banks |-> {},
            bank_product |-> {}, network_manager |-> {}, isp |-> {},
            isp_configuration |-> {}, user |-> {}, admin_profile |-> {}]

(* The tables whose rows others refer to by an id.  Ids only name rows, so *)
(* a row's id is what it was created as, whatever an update makes of it    *)
(* later, and a number: the order in which inserts land does not show.     *)
Numbered == {"bank_product", "network_manager", "isp", "isp_configuration"}

Typed(tables) ==
    /\ DOMAIN tables = DOMAIN EmptyDb
    /\ \A table \in Numbered : IsFiniteSet(tables[table])
    /\ tables.banks \subseteq Bank
    /\ \A p \in tables.bank_product : p \in BankProduct
    /\ tables.network_manager \subseteq NetworkManager
    /\ tables.isp \subseteq Isp
    /\ tables.isp_configuration \subseteq IspConfiguration

-----------------------------------------------------------------------------

NewId(rows, label) ==
    <<label, CHOOSE n \in 1..Cardinality(rows) + 1 :
                /\ \A row \in rows : row.id # <<label, n>>
                /\ \A m \in 1..(n - 1) : \E row \in rows : row.id = <<label, m>> >>

WithId(id, row) ==
    [field \in {"id"} \cup DOMAIN row |-> IF field = "id" THEN id ELSE row[field]]

(* What the id of a row shows of it.                                       *)
Label(table, row) ==
    IF table = "bank_product" THEN <<row.bank, row.name>>
    ELSE IF table = "isp_configuration" THEN row.isp_id ELSE row.name

(* A row inserted, with an id of its own.                                  *)
Created(tables, table, row) ==
    [tables EXCEPT ![table] = @ \cup {WithId(NewId(@, Label(table, row)), row)}]

Changed(tables, table, old, new) == [tables EXCEPT ![table] = (@ \ {old}) \cup {new}]

(* The foreign keys, the unique columns and the ids of the tables.         *)
Keyed(tables) ==
    /\ \A i \in tables.isp :
          \/ i.network_manager_id = NULL
          \/ \E m \in tables.network_manager : m.id = i.network_manager_id
    /\ \A c \in tables.isp_configuration : \E i \in tables.isp : i.id = c.isp_id
    /\ \A p \in tables.bank_product : \E b \in tables.banks : b.code = p.bank
    /\ \A m, n \in tables.network_manager : m.name = n.name => m = n
    /\ \A p, q \in tables.bank_product : p.id = q.id => p = q
    /\ \A p \in tables.bank_product : \A x, y \in p.properties : x.key = y.key => x = y

(* The network manager of the active ISP, as isp.findFirst finds it.       *)
ActiveManagers ==
    {m \in db.network_manager :
        \E i \in db.isp : i.is_active /\ i.network_manager_id = m.id}
=============================================================================
