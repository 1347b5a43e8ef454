--------------------------- MODULE Initialization ---------------------------
(***************************************************************************)
(* Start-up (initialization/): seven services, one after the other, each   *)
(* reads its tables and inserts what is missing.  An insert is a           *)
(* transaction of its own, those of one Promise.all land in any order, and *)
(* an error ends the process (initialization.provider.ts).  The process    *)
(* can die anywhere; a restart begins with the first service again.        *)
(***************************************************************************)
EXTENDS ConfigurationTables

CONSTANTS
    GlobalConfig, Tiers,    \* rows to insert
    BankList,               \* <<code, name>> in the order of the list
    ProductsByBank,         \* for each bank with products, the set of them
    Managers,               \* name |-> whether it comes with an address and a key
    MaxDeaths               \* bound: how often the process dies

(* The catalog has no product twice.                                       *)
ASSUME InitializationAssumption ==
    /\ MaxDeaths \in Nat
    /\ {"demo", "seeded"} \subseteq Texts /\ DOMAIN Managers \subseteq Names \cap Texts
    /\ BankList \in Seq(Codes \X BankNames)
    /\ ProductsByBank \in Seq(SUBSET [bank : Codes \cap Texts, name : STRING,
                                     currency : {"USD", "VES"}, rate : Nat,
                                     properties : SUBSET Texts])
    /\ \A i, j \in DOMAIN ProductsByBank :
          \A p \in ProductsByBank[i], q \in ProductsByBank[j] :
             p.bank = q.bank /\ p.name = q.name => i = j /\ p = q

VARIABLES
    boot,       \* where start-up is: the service and the inserts it has left
    deaths,     \* how often the process has died
    cutOff      \* history: the services the process has died in, between inserts

bootVars == <<db, boot, deaths, cutOff>>

Services == <<"globalConfig", "commission", "bank", "bankProduct",
              "networkManager", "isp", "adminUser">>

Insert(table, row) == [table |-> table, row |-> row, old |-> {}]

(* The inserts of each service, as batches by their place in the order: a  *)
(* batch lands in any order.                                               *)
GlobalConfigPlan ==
    IF db.global_configuration # {} THEN <<>>
    ELSE <<{Insert("global_configuration", [key |-> key]) : key \in GlobalConfig}>>

CommissionPlan ==
    IF db.commission_tiers # {} THEN <<>>
    ELSE <<{Insert("commission_tiers", tier) : tier \in Tiers}>>

(* Mutant: a table with rows in it counts as filled.                       *)
BankPlanCounts ==
    IF db.banks # {} THEN <<>>
    ELSE [i \in DOMAIN BankList |->
             {Insert("banks", [code |-> BankList[i][1], name |-> BankList[i][2]])}]

(* One bank at a time: created, or renamed as the list has it.             *)
BankPlan ==
    LET Existing(code) == {b \in db.banks : b.code = code}
        Outdated(entry) == Existing(entry[1]) # {[code |-> entry[1], name |-> entry[2]]}
    IN  [i \in {j \in DOMAIN BankList : Outdated(BankList[j])} |->
            {[table |-> "banks", row |-> [code |-> BankList[i][1], name |-> BankList[i][2]],
              old |-> Existing(BankList[i][1])]}]

ProductRow(product) ==
    [bank |-> product.bank, name |-> product.name, is_active |-> TRUE,
     api_url |-> encrypt(Plain(product.bank)), api_key |-> encrypt(Plain(product.bank)),
     api_secret |-> encrypt(Plain(product.bank)),
     configurations |-> <<[currency |-> product.currency, rate |-> product.rate]>>,
     properties |-> {[key |-> k, value |-> "seeded"] : k \in product.properties}]

(* Mutant: a bank that misses one product gets all of them.                *)
BankProductPlanAll ==
    LET Misses(products) ==
            \E product \in products :
                ~ \E p \in db.bank_product : p.bank = product.bank /\ p.name = product.name
    IN  [i \in {j \in DOMAIN ProductsByBank : Misses(ProductsByBank[j])} |->
            {Insert("bank_product", ProductRow(p)) : p \in ProductsByBank[i]}]

(* Bank by bank, the products whose name the bank does not have yet.       *)
BankProductPlan ==
    LET Missing(products) ==
            {product \in products :
                ~ \E p \in db.bank_product : p.bank = product.bank /\ p.name = product.name}
    IN  [i \in {j \in DOMAIN ProductsByBank : Missing(ProductsByBank[j]) # {}} |->
            {Insert("bank_product", ProductRow(p)) : p \in Missing(ProductsByBank[i])}]

ManagerRow(name) ==
    [name |-> name,
     api_url |-> IF Managers[name] THEN Plain(name) ELSE Empty,
     api_key |-> IF Managers[name] THEN encrypt(Plain(name)) ELSE Empty,
     api_secret |-> Empty]

NetworkManagerPlan ==
    IF db.network_manager # {} THEN <<>>
    ELSE <<{Insert("network_manager", ManagerRow(name)) : name \in DOMAIN Managers}>>

ManagersNamed(name) == {m \in db.network_manager : m.name = name}

IspOf(manager, active) ==
    [name |-> manager.name, network_manager_id |-> manager.id, is_active |-> active]

(* The demo ISP of MikroWISP, its configuration, and the one of Wisphub.   *)
IspPlan ==
    LET Isps(name, active) == {Insert("isp", IspOf(m, active)) : m \in ManagersNamed(name)}
        config == [isp_id |-> NewId(db.isp, "MIKROWISP"), instance_token |-> encrypt(Plain("demo"))]
        demo == {Insert("isp_configuration", config)}
    IN  IF db.isp # {} \/ ManagersNamed("MIKROWISP") = {} THEN <<>>
        ELSE IF ManagersNamed("WISPHUB") = {} THEN <<Isps("MIKROWISP", TRUE), demo>>
        ELSE <<Isps("MIKROWISP", TRUE), demo, Isps("WISPHUB", FALSE)>>

(* The administrator, then the administrator's profile.                    *)
AdminUserPlan ==
    IF \E u \in db.user : u.role = "ADMIN" THEN <<>>
    ELSE <<{Insert("user", [email |-> "admin@admin.com", role |-> "ADMIN"])},
           {Insert("admin_profile", [user_id |-> "admin@admin.com"])}>>

Plan(service) ==
    CASE service = "globalConfig"   -> GlobalConfigPlan
      [] service = "commission"     -> CommissionPlan
      [] service = "bank"           -> BankPlan
      [] service = "bankProduct"    -> BankProductPlan
      [] service = "networkManager" -> NetworkManagerPlan
      [] service = "isp"            -> IspPlan
      [] service = "adminUser"      -> AdminUserPlan

-----------------------------------------------------------------------------

Up == boot.pc = "up"
Down == [pc |-> "down", service |-> 1, todo |-> <<>>]

(* The inserts left, or the next service, or the end of start-up.          *)
Onward(service, todo) ==
    IF todo # <<>> THEN [pc |-> "writing", service |-> service, todo |-> todo]
    ELSE IF service < Len(Services)
         THEN [pc |-> "reading", service |-> service + 1, todo |-> <<>>]
         ELSE [pc |-> "up", service |-> service, todo |-> <<>>]

InitBoot == boot = Down /\ deaths = 0 /\ cutOff = {}

StartProcess ==
    /\ boot = Down
    /\ boot' = [Down EXCEPT !.pc = "reading"]
    /\ UNCHANGED <<db, deaths, cutOff>>

ReadTables ==
    /\ boot.pc = "reading"
    /\ boot' = Onward(boot.service, Plan(Services[boot.service]))
    /\ UNCHANGED <<db, deaths, cutOff>>

(* A product connects to its bank by code, which must be there.            *)
Connects(write) ==
    write.table = "bank_product" => \E b \in db.banks : b.code = write.row.bank

WriteRow ==
    /\ boot.pc = "writing"
    /\ \E next \in DOMAIN boot.todo : \E write \in boot.todo[next] :
          /\ \A i \in DOMAIN boot.todo : next <= i
          /\ Connects(write)
          /\ db' = IF write.table \in Numbered
                   THEN Created(db, write.table, write.row)
                   ELSE [db EXCEPT ![write.table] = (@ \ write.old) \cup {write.row}]
          /\ LET left == [boot.todo EXCEPT ![next] = @ \ {write}] IN
             boot' = Onward(boot.service,
                            [i \in {j \in DOMAIN left : left[j] # {}} |-> left[i]])
    /\ UNCHANGED <<deaths, cutOff>>

(* A query fails and the provider calls process.exit, or the process is    *)
(* killed, during start-up or later.                                       *)
Die ==
    /\ boot.pc # "down"
    /\ deaths < MaxDeaths
    /\ deaths' = deaths + 1
    /\ cutOff' = IF boot.pc = "writing" THEN cutOff \cup {Services[boot.service]} ELSE cutOff
    /\ boot' = Down
    /\ UNCHANGED db

BootStep == ReadTables \/ WriteRow
=============================================================================
