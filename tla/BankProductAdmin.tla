-------------------------- MODULE BankProductAdmin --------------------------
(***************************************************************************)
(* ManageBankProductService (bank-connectors/services/): an administrator  *)
(* creates and updates bank products.  An insert with its configurations   *)
(* and properties is one transaction; an update is a statement after the   *)
(* other, with what it has read of the configurations and properties at    *)
(* the start of each loop, and nothing undone when one of them fails.      *)
(***************************************************************************)
EXTENDS ConfigurationTables

CONSTANTS
    Updates         \* invocations of update

VARIABLES
    update,         \* what each of them is about to do, and holds
    contended,      \* history: updates of one product that were under way together
    renamed         \* history: the <<bank, name>> of products to which an update since
                    \* start-up has given another bank or another name

adminVars == <<update, contended, renamed>>

UpdateInFlight == {"configurations", "writingConfigurations",
                   "properties", "writingProperties", "product"}

(* What is sent: create-bank-product.dto.ts, and update-bank-product.dto.ts *)
(* of which every field is optional.  Of bank_id, name and is_active the   *)
(* dto names some, its "columns"; a null credential does as an empty one.  *)
Columns == {"bank", "name", "is_active"}

TypedDto(dto) ==
    /\ DOMAIN dto = {"columns", "api_url", "api_key", "api_secret", "configurations", "properties"}
    /\ DOMAIN dto.columns \subseteq Columns
    /\ "bank" \in DOMAIN dto.columns => dto.columns["bank"] \in Codes
    /\ "name" \in DOMAIN dto.columns => dto.columns["name"] \in STRING
    /\ "is_active" \in DOMAIN dto.columns => dto.columns["is_active"] \in BOOLEAN
    /\ {dto.api_url, dto.api_key, dto.api_secret} 
          \subseteq {Absent, Empty} \cup {Plain(text) : text \in Texts}
    /\ dto.configurations \in Seq(Rate) /\ dto.properties \in Seq(Property)

Given(columns, column, otherwise) ==
    IF column \in DOMAIN columns THEN columns[column] ELSE otherwise

NoDto == [columns |-> [column \in {} |-> column], api_url |-> Absent, api_key |-> Absent,
          api_secret |-> Absent, configurations |-> <<>>, properties |-> <<>>]

IdleUpdate == [pc |-> "idle", product |-> NULL, dto |-> NoDto, existing |-> {}, next |-> 1]

AdminTypeOK ==
    /\ DOMAIN update = Updates
    /\ \A u \in Updates :
          /\ update[u].pc \in {"idle", "done", "threw", "cut"} \cup UpdateInFlight
          /\ update[u].product # NULL => \E p \in db.bank_product : p.id = update[u].product
          /\ update[u].next \in Nat \ {0}
    /\ contended \subseteq Updates
    /\ renamed \subseteq Codes \X STRING

InitAdmin == update = [u \in Updates |-> IdleUpdate] /\ contended = {} /\ renamed = {}

ProductWith(id) == CHOOSE p \in db.bank_product : p.id = id

(* create: the bank and the name are required and the bank must exist,     *)
(* encrypt throws on an absent field, is_active is false by default, and a *)
(* property named twice violates the unique index.                         *)
CreateProduct(dto) ==
    /\ {"bank", "name"} \subseteq DOMAIN dto.columns
    /\ Encrypts(dto.api_url) /\ Encrypts(dto.api_key) /\ Encrypts(dto.api_secret)
    /\ \E b \in db.banks : b.code = dto.columns["bank"]
    /\ \A i, j \in DOMAIN dto.properties :
          dto.properties[i].key = dto.properties[j].key => i = j
    /\ db' = Created(db, "bank_product",
                     [bank |-> dto.columns["bank"], name |-> dto.columns["name"],
                      is_active |-> Given(dto.columns, "is_active", FALSE),
                      api_url |-> encrypt(dto.api_url), api_key |-> encrypt(dto.api_key),
                      api_secret |-> encrypt(dto.api_secret),
                      configurations |-> dto.configurations,
                      properties |-> {dto.properties[i] : i \in DOMAIN dto.properties}])
    /\ UNCHANGED adminVars

(* update(id, dto): a dto without configurations or properties skips       *)
(* their loop, which comes to the same as looping over none.               *)
StartUpdate(u, id, dto) ==
    /\ update[u].pc = "idle"
    /\ id \in {p.id : p \in db.bank_product}
    /\ LET rivals == {v \in Updates : update[v].pc \in UpdateInFlight /\ update[v].product = id}
       IN  contended' = contended \cup rivals \cup (IF rivals = {} THEN {} ELSE {u})
    /\ update' = [update EXCEPT ![u] = [IdleUpdate EXCEPT !.pc = "configurations",
                                                          !.product = id, !.dto = dto]]
    /\ UNCHANGED <<db, renamed>>

(* Of each currency the row that find returns: findMany asks for no order, *)
(* and no index keeps a product from having two rows of one currency.      *)
ReadConfigurations(u) ==
    LET rows == ProductWith(update[u].product).configurations
        currencies == {rows[i].currency : i \in DOMAIN rows}
    IN  /\ update[u].pc = "configurations"
        /\ \E first \in [currencies -> DOMAIN rows] :
              /\ \A c \in currencies : rows[first[c]].currency = c
              /\ update' = [update EXCEPT
                     ![u].pc = "writingConfigurations", ![u].next = 1,
                     ![u].existing = {<<c, first[c]>> : c \in currencies}]
        /\ UNCHANGED <<db, contended, renamed>>

(* The next configuration: the one of its currency among those read is     *)
(* overwritten, by id; a new currency gets a row.                          *)
WriteConfiguration(u) ==
    LET call == update[u]
        p == ProductWith(call.product)
        config == call.dto.configurations[call.next]
        found == {e[2] : e \in {x \in call.existing : x[1] = config.currency}}
    IN  /\ call.pc = "writingConfigurations"
        /\ call.next <= Len(call.dto.configurations)
        /\ db' = Changed(db, "bank_product", p,
                         [p EXCEPT !.configurations =
                             IF found = {} THEN Append(@, config)
                             ELSE [@ EXCEPT ![CHOOSE i \in found : TRUE] = config]])
        /\ update' = [update EXCEPT ![u].next = @ + 1]
        /\ UNCHANGED <<contended, renamed>>

EndConfigurations(u) ==
    /\ update[u].pc = "writingConfigurations"
    /\ update[u].next > Len(update[u].dto.configurations)
    /\ update' = [update EXCEPT ![u].pc = "properties", ![u].existing = {}]
    /\ UNCHANGED <<db, contended, renamed>>

ReadProperties(u) ==
    /\ update[u].pc = "properties"
    /\ update' = [update EXCEPT
           ![u].pc = "writingProperties", ![u].next = 1,
           ![u].existing = {x.key : x \in ProductWith(update[u].product).properties}]
    /\ UNCHANGED <<db, contended, renamed>>

(* The next property, by its key; an insert of a key that another update   *)
(* has inserted since the read violates the unique index and throws.       *)
WriteProperty(u) ==
    LET call == update[u]
        p == ProductWith(call.product)
        property == call.dto.properties[call.next]
        stored == {x \in p.properties : x.key = property.key}
    IN  /\ call.pc = "writingProperties"
        /\ call.next <= Len(call.dto.properties)
        /\ IF property.key \notin call.existing /\ stored # {}
           THEN /\ update' = [update EXCEPT ![u].pc = "threw"]
                /\ UNCHANGED db
           ELSE /\ db' = Changed(db, "bank_product", p,
                                 [p EXCEPT !.properties = (@ \ stored) \cup {property}])
                /\ update' = [update EXCEPT ![u].next = @ + 1]
        /\ UNCHANGED <<contended, renamed>>

EndProperties(u) ==
    /\ update[u].pc = "writingProperties"
    /\ update[u].next > Len(update[u].dto.properties)
    /\ update' = [update EXCEPT ![u].pc = "product", ![u].existing = {}]
    /\ UNCHANGED <<db, contended, renamed>>

(* Mutant: the key that was sent is not among what is updated.             *)
WriteProductKeepsKey(u) ==
    LET call == update[u]
        p == ProductWith(call.product)
        sent == call.dto.columns
        written == [p EXCEPT !.bank = Given(sent, "bank", @),
                             !.name = Given(sent, "name", @),
                             !.is_active = Given(sent, "is_active", @),
                             !.api_url = Merged(@, EncryptTruthy(call.dto.api_url)),
                             !.api_secret = Merged(@, EncryptTruthy(call.dto.api_secret))]
        banked == \E b \in db.banks : b.code = written.bank
        answers == banked /\ Decrypts(written.api_url) /\ Decrypts(written.api_key)
    IN  /\ call.pc = "product"
        /\ db' = IF banked THEN Changed(db, "bank_product", p, written) ELSE db
        /\ renamed' = IF banked /\ <<written.bank, written.name>> # <<p.bank, p.name>>
                      THEN renamed \cup {<<p.bank, p.name>>} ELSE renamed
        /\ update' = [update EXCEPT ![u].pc = IF answers THEN "done" ELSE "threw"]
        /\ UNCHANGED contended

(* The product's own row: what the dto names replaces what is there, its   *)
(* bank and its name too, and nothing keeps them apart from another        *)
(* product's; a bank there is not violates the foreign key.  Then the      *)
(* answer, which decrypts the address and the key: it throws, with         *)
(* everything written, when one is empty.                                  *)
WriteProduct(u) ==
    LET call == update[u]
        p == ProductWith(call.product)
        sent == call.dto.columns
        written == [p EXCEPT !.bank = Given(sent, "bank", @),
                             !.name = Given(sent, "name", @),
                             !.is_active = Given(sent, "is_active", @),
                             !.api_url = Merged(@, EncryptTruthy(call.dto.api_url)),
                             !.api_key = Merged(@, EncryptTruthy(call.dto.api_key)),
                             !.api_secret = Merged(@, EncryptTruthy(call.dto.api_secret))]
        banked == \E b \in db.banks : b.code = written.bank
        answers == banked /\ Decrypts(written.api_url) /\ Decrypts(written.api_key)
    IN  /\ call.pc = "product"
        /\ db' = IF banked THEN Changed(db, "bank_product", p, written) ELSE db
        /\ renamed' = IF banked /\ <<written.bank, written.name>> # <<p.bank, p.name>>
                      THEN renamed \cup {<<p.bank, p.name>>} ELSE renamed
        /\ update' = [update EXCEPT ![u].pc = IF answers THEN "done" ELSE "threw"]
        /\ UNCHANGED contended

UpdateThrows(u) ==
    /\ update[u].pc \in UpdateInFlight
    /\ update' = [update EXCEPT ![u].pc = "threw"]
    /\ UNCHANGED <<db, contended, renamed>>

CutUpdates ==
    update' = [u \in Updates |-> IF update[u].pc \in UpdateInFlight
                                 THEN [update[u] EXCEPT !.pc = "cut"] ELSE update[u]]

UpdateStep(u) ==
    \/ ReadConfigurations(u) \/ WriteConfiguration(u) \/ EndConfigurations(u)
    \/ ReadProperties(u) \/ WriteProperty(u) \/ EndProperties(u)
    \/ WriteProduct(u)

(* findOne, and getBankProductConfig of an active product: both throw when *)
(* what they decrypt is not a cipher text.                                 *)
FindsProduct(p) == Decrypts(p.api_url) /\ Decrypts(p.api_key)

ConfiguresProduct(p, code, name) ==
    /\ p.bank = code /\ p.name = name /\ p.is_active
    /\ Decrypts(p.api_url) /\ Decrypts(p.api_key) /\ Decrypts(p.api_secret)
    /\ p.configurations # <<>>
=============================================================================
