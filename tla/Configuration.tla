--------------------------- MODULE Configuration ----------------------------
(***************************************************************************)
(* How the system is set up, over its lifetime: start-up fills the tables, *)
(* administrators edit them while the process is up, and the services that *)
(* call a network manager or a bank read them once and keep what they read *)
(* (mikrowisp.adapter.ts, wisphub.adapter.ts, base-bank-product.service.ts *)
(* for the service of /banco-plaza) until the process ends.                *)
(***************************************************************************)
EXTENDS Initialization, Settings, BankProductAdmin

CONSTANTS
    Calls,              \* requests that call a network manager or a bank
    ManagerDtos,        \* what administrators send for a network manager
    Tokens,             \* ... for the token of an ISP configuration
    ProductDtos,        \* ... for a bank product
    InitialTables,      \* the databases the program is first started on
    MaxDisturbances     \* bound: how many edits begin and deaths happen, together

ASSUME ConfigurationAssumption ==
    /\ MaxDisturbances \in Nat
    /\ ManagerDtos \subseteq [name : Names, api_url : Field, api_key : Field, api_secret : Field]
    /\ Tokens \subseteq Field
    /\ \A dto \in ProductDtos : TypedDto(dto)
    /\ \A tables \in InitialTables : Typed(tables) /\ Keyed(tables)

VARIABLES
    kept,       \* the configuration each service object keeps
    calls,      \* what each request is doing
    edits,      \* how many edits have begun
    seen        \* history: the configurations there were since start-up

vars == <<db, boot, deaths, cutOff, update, contended, renamed, kept, calls, edits, seen>>

None == [apiUrl |-> Absent, apiKey |-> Absent]

(* The objects there is one of per process.                                *)
Clients == {"MIKROWISP", "WISPHUB", "BANCO PLAZA"}

(* What a service would read now: findFirst may return any row that fits.  *)
Configured(client) ==
    IF client = "BANCO PLAZA"
    THEN {[apiUrl |-> decrypt(p.api_url), apiKey |-> decrypt(p.api_key)] :
             p \in {q \in db.bank_product : ConfiguresProduct(q, "0138", "C2P")}}
    ELSE {NetworkManagerConfig(m) : m \in {n \in db.network_manager : Configures(n, client)}}

NoCall == [pc |-> "idle", client |-> "MIKROWISP", read |-> None]

(* The tables start empty, or as an earlier release has left them.         *)
Init ==
    /\ db \in InitialTables
    /\ InitBoot
    /\ InitAdmin
    /\ kept = [c \in Clients |-> None]
    /\ calls = [r \in Calls |-> NoCall]
    /\ edits = 0
    /\ seen = [c \in Clients |-> {}]

-----------------------------------------------------------------------------

(* A request finds no configuration in its service and reads the tables;   *)
(* one that finds none there throws.                                       *)
ReadConfig(r, client) ==
    /\ calls[r].pc = "idle"
    /\ kept[client] = None
    /\ \E config \in Configured(client) :
          calls' = [calls EXCEPT ![r] = [pc |-> "reading", client |-> client, read |-> config]]
    /\ UNCHANGED kept

(* The query returns, and what it has read is kept, whoever else has kept  *)
(* something meanwhile.                                                    *)
KeepConfig(r) ==
    /\ calls[r].pc = "reading"
    /\ kept' = [kept EXCEPT ![calls[r].client] = calls[r].read]
    /\ calls' = [calls EXCEPT ![r] = NoCall]

CallStep == \E r \in Calls : (\E client \in Clients : ReadConfig(r, client)) \/ KeepConfig(r)

(* The endpoints of each controller.                                       *)
NetworkManagerEdit ==
    /\ \/ \E dto \in ManagerDtos : CreateNetworkManager(dto)
       \/ \E m \in db.network_manager, dto \in ManagerDtos : UpdateNetworkManager(m, dto)
       \/ \E m \in db.network_manager : RemoveNetworkManager(m)
    /\ UNCHANGED adminVars

IspConfigurationEdit ==
    /\ \/ \E i \in db.isp, token \in Tokens : CreateIspConfiguration(i.id, token)
       \/ \E c \in db.isp_configuration, i \in db.isp, token \in Tokens :
             UpdateIspConfiguration(c, i.id, token)
       \/ \E c \in db.isp_configuration : RemoveIspConfiguration(c)
    /\ UNCHANGED adminVars

BankProductEdit ==
    \/ \E dto \in ProductDtos : CreateProduct(dto)
    \/ \E u \in Updates, p \in db.bank_product, dto \in ProductDtos : StartUpdate(u, p.id, dto)

Edit == NetworkManagerEdit \/ IspConfigurationEdit \/ BankProductEdit

(* Mutant: what was read is kept outside the process.                      *)
DieAndRemember ==
    /\ edits + deaths < MaxDisturbances
    /\ Die
    /\ CutUpdates
    /\ calls' = [r \in Calls |-> NoCall]
    /\ seen' = [c \in Clients |-> {}]
    /\ renamed' = {}
    /\ UNCHANGED <<contended, kept, edits>>

(* The process ends, and with it what its objects keep and all that is     *)
(* under way.                                                              *)
DieWithMemory ==
    /\ edits + deaths < MaxDisturbances
    /\ Die
    /\ CutUpdates
    /\ kept' = [c \in Clients |-> None]
    /\ calls' = [r \in Calls |-> NoCall]
    /\ seen' = [c \in Clients |-> {}]
    /\ renamed' = {}
    /\ UNCHANGED <<contended, edits>>

Running ==
    \/ (StartProcess \/ BootStep) /\ UNCHANGED <<update, contended, renamed, kept, calls, edits>>
    \/ Up /\ CallStep /\ UNCHANGED <<bootVars, update, contended, renamed, edits>>
    \/ /\ Up /\ Edit
       /\ edits + deaths < MaxDisturbances /\ edits' = edits + 1
       /\ UNCHANGED <<boot, deaths, cutOff, kept, calls>>
    \/ /\ \E u \in Updates : UpdateStep(u) \/ UpdateThrows(u)
       /\ UNCHANGED <<boot, deaths, cutOff, kept, calls, edits>>

Next ==
    \/ Running /\ seen' = [c \in Clients |-> seen[c] \cup Configured(c)']
    \/ DieWithMemory

Spec == Init /\ [][Next]_vars

-----------------------------------------------------------------------------
(***************************************************************************)
(* Properties                                                              *)
(***************************************************************************)

(* The types, and the keys the database guards.                            *)
ConfigurationTypeOK ==
    /\ Typed(db) /\ Keyed(db) /\ AdminTypeOK
    /\ boot.pc \in {"down", "reading", "writing", "up"}
    /\ boot.service \in DOMAIN Services
    /\ deaths \in 0..MaxDeaths /\ edits \in 0..MaxDisturbances
    /\ cutOff \subseteq {Services[i] : i \in DOMAIN Services}
    /\ \A c \in Clients : {kept[c].apiUrl, kept[c].apiKey} \subseteq Field

HasProduct(tables, product) ==
    \E p \in tables.bank_product : p.bank = product.bank /\ p.name = product.name

(* What each service of start-up is there for.                             *)
Complete(tables, service) ==
    CASE service = "globalConfig"   -> \A k \in GlobalConfig :
                                          \E r \in tables.global_configuration : r.key = k
      [] service = "commission"     -> tables.commission_tiers = Tiers
      [] service = "bank"           -> {[code |-> BankList[i][1], name |-> BankList[i][2]] :
                                          i \in DOMAIN BankList} \subseteq tables.banks
      [] service = "bankProduct"    -> \A i \in DOMAIN ProductsByBank :
                                          \A product \in ProductsByBank[i] :
                                             HasProduct(tables, product)
      [] service = "networkManager" -> \A name \in DOMAIN Managers :
                                          \E m \in tables.network_manager : m.name = name
      [] service = "isp"            -> \E i \in tables.isp, c \in tables.isp_configuration :
                                          i.is_active /\ c.isp_id = i.id
                                          /\ i.network_manager_id # NULL
      [] service = "adminUser"      -> \E u \in tables.user, p \in tables.admin_profile :
                                          u.role = "ADMIN" /\ p.user_id = u.email

(* The services that insert only when a table has no rows, and those rows. *)
Counted(tables) ==
    [globalConfig   |-> tables.global_configuration,
     commission     |-> tables.commission_tiers,
     networkManager |-> tables.network_manager,
     isp            |-> tables.isp,
     adminUser      |-> {u \in tables.user : u.role = "ADMIN"}]

(* The catalog names a bank once, comes with MikroWISP and has one key of  *)
(* global configuration; what an earlier release has left is what a start  *)
(* of it that was not cut off left.                                        *)
ASSUME SeedingAssumption ==
    /\ \E key \in GlobalConfig : GlobalConfig = {key}
    /\ \A i, j \in DOMAIN BankList : BankList[i][1] = BankList[j][1] => i = j
    /\ "MIKROWISP" \in DOMAIN Managers
    /\ \A tables \in InitialTables : \A service \in DOMAIN Counted(tables) :
          Counted(tables)[service] = {} \/ Complete(tables, service)

(* The services that look for each row they insert, or insert one alone,   *)
(* make up at the next start for what a death has cut off.                 *)
Resumable == {"globalConfig", "bank", "bankProduct"}

(* "Sistema inicializado correctamente" holds when the process is up: all  *)
(* that start-up is there for is there, except where the process has died  *)
(* inside a service that only counts rows, or an administrator has edited  *)
(* what start-up had put there.  Of the bank products only those that an   *)
(* update since start-up gave another bank or name may be missing: the     *)
(* next start creates them again.                                          *)
SeedingHeals ==
    Up => \A i \in DOMAIN Services :
             LET service == Services[i] IN
             \/ Complete(db, service)
             \/ service \in cutOff \ Resumable
             \/ service = "isp" /\ "networkManager" \in cutOff
             \/ service \in {"networkManager", "isp"} /\ edits > 0
             \/ /\ service = "bankProduct"
                /\ \A j \in DOMAIN ProductsByBank : \A product \in ProductsByBank[j] :
                      \/ HasProduct(db, product)
                      \/ <<product.bank, product.name>> \in renamed

(* A restart takes nothing back that was configured: rows are only added,  *)
(* a bank may be renamed, and no bank gets a product it has by that name.  *)
RestartKeepsSettings ==
    [][ ~Up =>
        /\ \A table \in DOMAIN db \ {"banks"} : db[table] \subseteq db'[table]
        /\ {b.code : b \in db.banks} \subseteq {b.code : b \in db.banks'}
        /\ \A p \in db.bank_product' \ db.bank_product, q \in db.bank_product :
              ~ (p.bank = q.bank /\ p.name = q.name) ]_vars

Currencies(configurations) == [i \in DOMAIN configurations |-> configurations[i].currency]
Keys(properties) == [i \in DOMAIN properties |-> properties[i].key]

(* What a sequence has more than once, and the places of its first n that  *)
(* are the last ones of what they hold.                                    *)
Repeated(seq) == {seq[i] : i \in {j \in DOMAIN seq : \E k \in DOMAIN seq \ {j} : seq[k] = seq[j]}}
Lasting(seq, n) == {i \in 1..n : \A j \in (i + 1)..n : seq[j] # seq[i]}

(* The first n of a list have been written: each, unless a later one has   *)
(* the same currency, or key.                                              *)
HasConfigurations(p, configurations, n) ==
    \A i \in Lasting(Currencies(configurations), n) :
       \E row \in DOMAIN p.configurations : p.configurations[row] = configurations[i]
HasProperties(p, properties, n) ==
    \A i \in Lasting(Keys(properties), n) : properties[i] \in p.properties

Credentials == {"api_url", "api_key", "api_secret"}

(* Nothing of p that the dto does not name differs in q.                   *)
KeepsUnnamed(dto, p, q) ==
    /\ \A column \in Columns \ DOMAIN dto.columns : q[column] = p[column]
    /\ \A field \in Credentials : dto[field] = Absent => q[field] = p[field]
    /\ \A row \in DOMAIN p.configurations :
          \/ \E i \in DOMAIN dto.configurations :
                dto.configurations[i].currency = p.configurations[row].currency
          \/ /\ row \in DOMAIN q.configurations
             /\ q.configurations[row] = p.configurations[row]
    /\ \A x \in p.properties :
          x \in q.properties \/ \E i \in DOMAIN dto.properties : dto.properties[i].key = x.key

(* The row has what the dto names of it; a credential that was sent comes  *)
(* out of decrypt again, and an empty one has replaced what was there.     *)
HasRow(q, dto) ==
    /\ \A column \in DOMAIN dto.columns : q[column] = dto.columns[column]
    /\ \A field \in Credentials :
          /\ Truthy(dto[field]) => Decrypts(q[field]) /\ decrypt(q[field]) = dto[field]
          /\ dto[field] = Empty => q[field] = Empty

(* An update of dto takes a product from p to q, and goes on to pc.        *)
Effected(dto, p, q, pc) ==
    /\ Repeated(Currencies(q.configurations))
          \subseteq Repeated(Currencies(p.configurations))
                    \cup Repeated(Currencies(dto.configurations))
    /\ KeepsUnnamed(dto, p, q)
    /\ pc = "done" =>
          /\ HasRow(q, dto)
          /\ HasConfigurations(q, dto.configurations, Len(dto.configurations))
          /\ HasProperties(q, dto.properties, Len(dto.properties))
          /\ FindsProduct(q)

ProductOf(u) == ProductWith(update[u].product)

TakesEffect(u) ==
    update[u].pc \in UpdateInFlight =>
       Effected(update[u].dto, ProductOf(u), ProductOf(u)', update'[u].pc)

(* An update that is alone with its product while it is under way gives no *)
(* currency a second rate, at no step, unless it names the currency twice, *)
(* and changes nothing it does not name.  Once it answers the product has  *)
(* what it was sent, as a whole: its bank, its name, whether it is active, *)
(* each credential, each rate and each property; of what a list has twice, *)
(* the last.  Updates of one product that cross are another matter.        *)
UpdateTakesEffect == [][\A u \in Updates \ contended : TakesEffect(u)]_vars

(* What a service keeps was configured, for its client and as one row, at  *)
(* some time since start-up: nothing outlives a restart, and no address    *)
(* goes with another row's key.                                            *)
KeptWasConfigured ==
    /\ \A c \in Clients : kept[c] # None => kept[c] \in seen[c]
    /\ \A r \in Calls : calls[r].pc = "reading" => calls[r].read \in seen[calls[r].client]

=============================================================================
