------------------------ MODULE ConfigurationProofs -------------------------
(***************************************************************************)
(* What holds of Configuration for every catalog, every table an earlier   *)
(* release may have left, and any number of edits, updates and requests.   *)
(***************************************************************************)
EXTENDS Configuration, SequenceTheorems, FiniteSetTheorems, WellFoundedInduction, TLAPS

-----------------------------------------------------------------------------
(***************************************************************************)
(* What the services keep.  KeptWasConfigured is not inductive: a request  *)
(* reads the tables, so what they say while the process is up must be in   *)
(* seen already; while it is down they may say what is not.                *)
(***************************************************************************)
KeptInv ==
    /\ KeptWasConfigured
    /\ DOMAIN seen = Clients /\ DOMAIN calls = Calls /\ DOMAIN kept = Clients
    /\ \A r \in Calls : calls[r].client \in Clients
    /\ Up => \A c \in Clients : Configured(c) \subseteq seen[c]

LEMMA InitKept == Init => KeptInv
<1> SUFFICES ASSUME Init PROVE KeptInv
    OBVIOUS
<1>1. NoCall.pc = "idle" /\ NoCall.client \in Clients
  BY DEF NoCall, Clients
<1>2. ~Up
  BY DEF Init, InitBoot, Down, Up
<1> QED
  BY <1>1, <1>2 DEF Init, KeptInv, KeptWasConfigured

(* What is configured depends on the tables alone.                         *)
LEMMA ConfiguredFromTables ==
    ASSUME UNCHANGED db, NEW c PROVE Configured(c)' = Configured(c)
  BY DEF Configured, ConfiguresProduct, Configures, ActiveManagers,
         NetworkManagerConfig

LEMMA KeptStep == KeptInv /\ [Next]_vars => KeptInv'
<1> SUFFICES ASSUME KeptInv, [Next]_vars PROVE KeptInv'
    OBVIOUS
<1>1. CASE Running /\ seen' = [c \in Clients |-> seen[c] \cup Configured(c)']
  <2>1. /\ DOMAIN seen' = Clients
        /\ \A c \in Clients : Configured(c)' \subseteq seen'[c] /\ seen[c] \subseteq seen'[c]
    BY <1>1
  <2> SUFFICES DOMAIN calls' = Calls /\ DOMAIN kept' = Clients /\ KeptWasConfigured'
                  /\ \A r \in Calls : calls'[r].client \in Clients
    BY <2>1 DEF KeptInv
  <2>2. CASE UNCHANGED <<kept, calls>>
    <3>1. \A c \in Clients : kept'[c] # None => kept'[c] \in seen'[c]
      BY <2>1, <2>2 DEF KeptInv, KeptWasConfigured
    <3>2. \A r \in Calls : calls'[r].pc = "reading" => calls'[r].read \in seen'[calls'[r].client]
      BY <2>1, <2>2 DEF KeptInv, KeptWasConfigured
    <3> QED
      BY <2>2, <3>1, <3>2 DEF KeptInv, KeptWasConfigured
  <2>3. ASSUME Up /\ CallStep
        PROVE  DOMAIN calls' = Calls /\ DOMAIN kept' = Clients /\ KeptWasConfigured'
               /\ \A r \in Calls : calls'[r].client \in Clients
    <3>1. PICK r \in Calls : (\E client \in Clients : ReadConfig(r, client)) \/ KeepConfig(r)
      BY <2>3 DEF CallStep
    <3>2. ASSUME KeepConfig(r)
          PROVE  DOMAIN calls' = Calls /\ DOMAIN kept' = Clients /\ KeptWasConfigured'
                 /\ \A t \in Calls : calls'[t].client \in Clients
      <4>1. calls' = [calls EXCEPT ![r] = NoCall] /\ NoCall.pc = "idle"
            /\ NoCall.client \in Clients
        BY <3>2 DEF KeepConfig, NoCall, Clients
      <4>2. kept' = [kept EXCEPT ![calls[r].client] = calls[r].read]
            /\ calls[r].read \in seen'[calls[r].client]
        BY <3>2, <2>1 DEF KeepConfig, KeptInv, KeptWasConfigured
      <4>3. \A c \in Clients : kept'[c] # None => kept'[c] \in seen'[c]
        BY <2>1, <4>2 DEF KeptInv, KeptWasConfigured
      <4>4. \A t \in Calls : calls'[t].client \in Clients
                             /\ (calls'[t].pc = "reading" => calls'[t].read \in seen'[calls'[t].client])
        BY <2>1, <4>1 DEF KeptInv, KeptWasConfigured
      <4> QED
        BY <4>1, <4>2, <4>3, <4>4 DEF KeptInv, KeptWasConfigured
    <3>3. ASSUME NEW client \in Clients, ReadConfig(r, client)
          PROVE  DOMAIN calls' = Calls /\ DOMAIN kept' = Clients /\ KeptWasConfigured'
                 /\ \A t \in Calls : calls'[t].client \in Clients
      <4>1. PICK config \in Configured(client) :
               calls' = [calls EXCEPT ![r] = [pc |-> "reading", client |-> client,
                                              read |-> config]]
        BY <3>3 DEF ReadConfig
      <4>2. config \in seen'[client] /\ kept' = kept
        BY <2>1, <2>3, <3>3, <4>1 DEF KeptInv, ReadConfig
      <4>3. \A c \in Clients : kept'[c] # None => kept'[c] \in seen'[c]
        BY <2>1, <4>2 DEF KeptInv, KeptWasConfigured
      <4>4. \A t \in Calls : calls'[t].client \in Clients
                             /\ (calls'[t].pc = "reading" => calls'[t].read \in seen'[calls'[t].client])
        BY <2>1, <4>1, <4>2 DEF KeptInv, KeptWasConfigured
      <4> QED
        BY <4>1, <4>2, <4>3, <4>4 DEF KeptInv, KeptWasConfigured
    <3> QED
      BY <3>1, <3>2, <3>3
  <2> QED
    BY <1>1, <2>2, <2>3 DEF Running
<1>2. CASE DieWithMemory
  BY <1>2 DEF DieWithMemory, Die, Down, Up, KeptInv, KeptWasConfigured, NoCall, Clients
<1>3. CASE UNCHANGED vars
  BY <1>3, ConfiguredFromTables DEF vars, KeptInv, KeptWasConfigured, Up
<1> QED
  BY <1>1, <1>2, <1>3 DEF Next

(* What a service keeps of the network manager or the bank product was     *)
(* configured, as one row, since start-up: the read and the assignment of  *)
(* initConfig are two steps, between which the row can change and others   *)
(* can keep another, but never mix two rows or outlive a restart.          *)
THEOREM KeptConfigurations == Spec => []KeptWasConfigured
<1>1. KeptInv => KeptWasConfigured
  BY DEF KeptInv
<1> QED
  BY InitKept, KeptStep, <1>1, PTL DEF Spec

-----------------------------------------------------------------------------
(***************************************************************************)
(* The tables: rows inserted and changed keep the types and the keys.      *)
(***************************************************************************)

(* Induction, in the form the provers can use: the least counterexample.   *)
LEMMA LeastNumber ==
  ASSUME NEW T, T \subseteq Nat, T # {}
  PROVE  \E x \in T : \A y \in T : x <= y
<1> DEFINE R == OpToRel(<, Nat)
<1>1. IsWellFoundedOn(R, Nat)
  BY NatLessThanWellFounded
<1>2. \A x, y \in Nat : x < y => <<x, y>> \in R
  BY DEF OpToRel
<1> HIDE DEF R
<1>3. PICK x \in T : \A y \in T : ~ (<<y, x>> \in R)
  BY <1>1, WFMin
<1>4. ASSUME NEW y \in T PROVE x <= y
  <2>1. x \in Nat /\ y \in Nat
    OBVIOUS
  <2>2. ~ (y < x)
    BY <1>2, <1>3, <2>1
  <2> QED
    BY <2>1, <2>2
<1> QED
  BY <1>4

(* Among n + 1 numbers there is one that n rows do not have.               *)
LEMMA NewIdFresh ==
  ASSUME NEW rows, IsFiniteSet(rows), NEW label
  PROVE  /\ NewId(rows, label) \in {label} \X Nat
         /\ \A row \in rows : row.id # NewId(rows, label)
<1> DEFINE Numbers == 1..(Cardinality(rows) + 1)
           Free == {n \in Numbers : \A row \in rows : row.id # <<label, n>>}
<1>1. Cardinality(rows) \in Nat
  BY FS_CardinalityType
<1>2. Free # {}
  <2> SUFFICES ASSUME \A n \in Numbers : \E row \in rows : row.id = <<label, n>>
               PROVE  FALSE
      OBVIOUS
  <2> DEFINE f == [n \in Numbers |-> CHOOSE row \in rows : row.id = <<label, n>>]
  <2>1. f \in [Numbers -> rows] /\ \A n \in Numbers : f[n].id = <<label, n>>
    OBVIOUS
  <2>2. IsFiniteSet(Numbers) /\ Cardinality(Numbers) = Cardinality(rows) + 1
    BY <1>1, FS_Interval
  <2> HIDE DEF f, Numbers
  <2>3. \E m, n \in Numbers : m # n /\ f[m] = f[n]
    BY <1>1, <2>1, <2>2, FS_PigeonHole
  <2> QED
    BY <2>1, <2>3
<1>3. Free \subseteq Nat
  OBVIOUS
<1>4. PICK n \in Free : \A m \in Free : n <= m
  <2> HIDE DEF Numbers, Free
  <2> QED
    BY <1>2, <1>3, LeastNumber
<1> DEFINE Least(k) == /\ \A row \in rows : row.id # <<label, k>>
                       /\ \A m \in 1..(k - 1) : \E row \in rows : row.id = <<label, m>>
<1>5. n \in Numbers /\ \A row \in rows : row.id # <<label, n>>
  OBVIOUS
<1>6. ASSUME NEW m \in 1..(n - 1) PROVE \E row \in rows : row.id = <<label, m>>
  <2>1. m \in Numbers /\ ~ (n <= m)
    BY <1>1, <1>5
  <2>2. m \notin Free
    <3> HIDE DEF Free
    <3> QED
      BY <1>4, <2>1
  <2> QED
    BY <2>1, <2>2
<1> DEFINE k == CHOOSE j \in Numbers : Least(j)
<1>7. k \in Numbers /\ Least(k)
  <2>1. \E j \in Numbers : Least(j)
    BY <1>5, <1>6
  <2> HIDE DEF Numbers, Least
  <2> QED
    BY <2>1
<1>8. NewId(rows, label) = <<label, k>>
  BY DEF NewId
<1> HIDE DEF k
<1> QED
  BY <1>1, <1>7, <1>8

TableOK(tables) == Typed(tables) /\ Keyed(tables)

(* The rows a service hands to prisma, without an id; a product's          *)
(* properties have a key each.                                             *)
Properties == {set \in SUBSET Property : \A x, y \in set : x.key = y.key => x = y}

NewProduct == [bank : Codes, name : STRING, is_active : BOOLEAN,
               api_url : Field, api_key : Field, api_secret : Field,
               configurations : Seq(Rate), properties : Properties]

NewManager == [name : Names, api_url : Field, api_key : Field, api_secret : Field]

NewIsp == [name : Names, network_manager_id : {NULL} \cup (Names \X Nat), is_active : BOOLEAN]

NewIspConfiguration == [isp_id : Names \X Nat, instance_token : Field]

(* A bank product inserted: its bank is there.                             *)
LEMMA ProductCreated ==
  ASSUME NEW tables, TableOK(tables), NEW row \in NewProduct,
         \E b \in tables.banks : b.code = row.bank
  PROVE  LET new == WithId(NewId(tables.bank_product, <<row.bank, row.name>>), row)
             after == Created(tables, "bank_product", row)
         IN  /\ TableOK(after)
             /\ after.bank_product = tables.bank_product \cup {new}
             /\ new.bank = row.bank /\ new.name = row.name
             /\ \A t \in DOMAIN tables \ {"bank_product"} : after[t] = tables[t]
<1> DEFINE id == NewId(tables.bank_product, <<row.bank, row.name>>)
           new == WithId(id, row)
           after == Created(tables, "bank_product", row)
<1>1. id \in (Codes \X STRING) \X Nat /\ \A p \in tables.bank_product : p.id # id
  <2>1. IsFiniteSet(tables.bank_product)
    BY DEF TableOK, Typed, Numbered
  <2>2. <<row.bank, row.name>> \in Codes \X STRING
    BY DEF NewProduct
  <2> QED
    BY <2>1, <2>2, NewIdFresh
<1> HIDE DEF id
<1>2. /\ new \in BankProduct /\ new.properties \in Properties
      /\ new.id = id /\ new.bank = row.bank /\ new.name = row.name
  BY <1>1 DEF WithId, NewProduct, BankProduct, Properties
<1>3. after = [tables EXCEPT !.bank_product = tables.bank_product \cup {new}]
  BY DEF Created, Label, id
<1> HIDE DEF new, after
<1>4. /\ DOMAIN after = DOMAIN EmptyDb
      /\ after.bank_product = tables.bank_product \cup {new}
      /\ \A t \in DOMAIN tables \ {"bank_product"} : after[t] = tables[t]
      /\ after.banks = tables.banks /\ after.network_manager = tables.network_manager
      /\ after.isp = tables.isp /\ after.isp_configuration = tables.isp_configuration
  BY <1>3 DEF TableOK, Typed, EmptyDb
<1>5. \A t \in Numbered : IsFiniteSet(after[t])
  <2>1. IsFiniteSet(after.bank_product)
    <3>1. IsFiniteSet(tables.bank_product)
      BY DEF TableOK, Typed, Numbered
    <3> QED
      BY <1>4, <3>1, FS_AddElement
  <2> QED
    BY <1>4, <2>1 DEF TableOK, Typed, Numbered, EmptyDb
<1>6. Typed(after)
  BY <1>2, <1>4, <1>5 DEF TableOK, Typed
<1>7. Keyed(after)
  BY <1>1, <1>2, <1>4 DEF TableOK, Keyed, Properties
<1> QED
  BY <1>2, <1>4, <1>6, <1>7 DEF TableOK, new, after, id

(* A network manager inserted: no other has its name.                      *)
LEMMA ManagerCreated ==
  ASSUME NEW tables, TableOK(tables), NEW row \in NewManager,
         \A m \in tables.network_manager : m.name # row.name
  PROVE  LET new == WithId(NewId(tables.network_manager, row.name), row)
             after == Created(tables, "network_manager", row)
         IN  /\ TableOK(after)
             /\ after.network_manager = tables.network_manager \cup {new}
             /\ new.name = row.name
             /\ \A t \in DOMAIN tables \ {"network_manager"} : after[t] = tables[t]
<1> DEFINE id == NewId(tables.network_manager, row.name)
           new == WithId(id, row)
           after == Created(tables, "network_manager", row)
<1>1. id \in Names \X Nat /\ \A r \in tables.network_manager : r.id # id
  <2>1. IsFiniteSet(tables.network_manager)
    BY DEF TableOK, Typed, Numbered
  <2>2. row.name \in Names
    BY DEF NewManager
  <2> QED
    BY <2>1, <2>2, NewIdFresh
<1>2. /\ new \in NetworkManager
      /\ new.id = id /\ new.name = row.name
  <2> HIDE DEF id
  <2> QED
    BY <1>1 DEF WithId, NewManager, NetworkManager
<1>3. after = [tables EXCEPT !.network_manager = tables.network_manager \cup {new}]
  <2> HIDE DEF id
  <2> QED
    BY DEF Created, Label, id
<1> HIDE DEF new, after, id
<1>4. /\ DOMAIN after = DOMAIN EmptyDb
      /\ after.network_manager = tables.network_manager \cup {new}
      /\ \A t \in DOMAIN tables \ {"network_manager"} : after[t] = tables[t]
      /\ after.banks = tables.banks /\ after.bank_product = tables.bank_product
      /\ after.isp = tables.isp /\ after.isp_configuration = tables.isp_configuration
  BY <1>3 DEF TableOK, Typed, EmptyDb
<1>5. \A t \in Numbered : IsFiniteSet(after[t])
  <2>1. IsFiniteSet(after.network_manager)
    <3>1. IsFiniteSet(tables.network_manager)
      BY DEF TableOK, Typed, Numbered
    <3> QED
      BY <1>4, <3>1, FS_AddElement
  <2> QED
    BY <1>4, <2>1 DEF TableOK, Typed, Numbered, EmptyDb
<1>6. Typed(after)
  BY <1>2, <1>4, <1>5 DEF TableOK, Typed
<1>7. Keyed(after)
  BY <1>1, <1>2, <1>4 DEF TableOK, Keyed
<1> QED
  BY <1>2, <1>4, <1>6, <1>7 DEF TableOK, new, after, id

(* An ISP inserted: its network manager is there.                          *)
LEMMA IspCreated ==
  ASSUME NEW tables, TableOK(tables), NEW row \in NewIsp,
         \E m \in tables.network_manager : m.id = row.network_manager_id
  PROVE  LET new == WithId(NewId(tables.isp, row.name), row)
             after == Created(tables, "isp", row)
         IN  /\ TableOK(after)
             /\ after.isp = tables.isp \cup {new}
             /\ new.id = NewId(tables.isp, row.name)
             /\ \A t \in DOMAIN tables \ {"isp"} : after[t] = tables[t]
<1> DEFINE id == NewId(tables.isp, row.name)
           new == WithId(id, row)
           after == Created(tables, "isp", row)
<1>1. id \in Names \X Nat /\ \A r \in tables.isp : r.id # id
  <2>1. IsFiniteSet(tables.isp)
    BY DEF TableOK, Typed, Numbered
  <2>2. row.name \in Names
    BY DEF NewIsp
  <2> QED
    BY <2>1, <2>2, NewIdFresh
<1>2. /\ new \in Isp
      /\ new.id = id /\ new.network_manager_id = row.network_manager_id
  <2> HIDE DEF id
  <2> QED
    BY <1>1 DEF WithId, NewIsp, Isp
<1>3. after = [tables EXCEPT !.isp = tables.isp \cup {new}]
  <2> HIDE DEF id
  <2> QED
    BY DEF Created, Label, id
<1> HIDE DEF new, after, id
<1>4. /\ DOMAIN after = DOMAIN EmptyDb
      /\ after.isp = tables.isp \cup {new}
      /\ \A t \in DOMAIN tables \ {"isp"} : after[t] = tables[t]
      /\ after.banks = tables.banks /\ after.bank_product = tables.bank_product
      /\ after.network_manager = tables.network_manager /\ after.isp_configuration = tables.isp_configuration
  BY <1>3 DEF TableOK, Typed, EmptyDb
<1>5. \A t \in Numbered : IsFiniteSet(after[t])
  <2>1. IsFiniteSet(after.isp)
    <3>1. IsFiniteSet(tables.isp)
      BY DEF TableOK, Typed, Numbered
    <3> QED
      BY <1>4, <3>1, FS_AddElement
  <2> QED
    BY <1>4, <2>1 DEF TableOK, Typed, Numbered, EmptyDb
<1>6. Typed(after)
  BY <1>2, <1>4, <1>5 DEF TableOK, Typed
<1>7. Keyed(after)
  BY <1>1, <1>2, <1>4 DEF TableOK, Keyed
<1> QED
  BY <1>2, <1>4, <1>6, <1>7 DEF TableOK, new, after, id

(* The configuration of an ISP inserted: the ISP is there.                 *)
LEMMA IspConfigurationCreated ==
  ASSUME NEW tables, TableOK(tables), NEW row \in NewIspConfiguration,
         \E i \in tables.isp : i.id = row.isp_id
  PROVE  LET new == WithId(NewId(tables.isp_configuration, row.isp_id), row)
             after == Created(tables, "isp_configuration", row)
         IN  /\ TableOK(after)
             /\ after.isp_configuration = tables.isp_configuration \cup {new}
             /\ new.isp_id = row.isp_id
             /\ \A t \in DOMAIN tables \ {"isp_configuration"} : after[t] = tables[t]
<1> DEFINE id == NewId(tables.isp_configuration, row.isp_id)
           new == WithId(id, row)
           after == Created(tables, "isp_configuration", row)
<1>1. id \in (Names \X Nat) \X Nat /\ \A r \in tables.isp_configuration : r.id # id
  <2>1. IsFiniteSet(tables.isp_configuration)
    BY DEF TableOK, Typed, Numbered
  <2>2. row.isp_id \in (Names \X Nat)
    BY DEF NewIspConfiguration
  <2> QED
    BY <2>1, <2>2, NewIdFresh
<1>2. /\ new \in IspConfiguration
      /\ new.id = id /\ new.isp_id = row.isp_id
  <2> HIDE DEF id
  <2> QED
    BY <1>1 DEF WithId, NewIspConfiguration, IspConfiguration
<1>3. after = [tables EXCEPT !.isp_configuration = tables.isp_configuration \cup {new}]
  <2> HIDE DEF id
  <2> QED
    BY DEF Created, Label, id
<1> HIDE DEF new, after, id
<1>4. /\ DOMAIN after = DOMAIN EmptyDb
      /\ after.isp_configuration = tables.isp_configuration \cup {new}
      /\ \A t \in DOMAIN tables \ {"isp_configuration"} : after[t] = tables[t]
      /\ after.banks = tables.banks /\ after.bank_product = tables.bank_product
      /\ after.network_manager = tables.network_manager /\ after.isp = tables.isp
  BY <1>3 DEF TableOK, Typed, EmptyDb
<1>5. \A t \in Numbered : IsFiniteSet(after[t])
  <2>1. IsFiniteSet(after.isp_configuration)
    <3>1. IsFiniteSet(tables.isp_configuration)
      BY DEF TableOK, Typed, Numbered
    <3> QED
      BY <1>4, <3>1, FS_AddElement
  <2> QED
    BY <1>4, <2>1 DEF TableOK, Typed, Numbered, EmptyDb
<1>6. Typed(after)
  BY <1>2, <1>4, <1>5 DEF TableOK, Typed
<1>7. Keyed(after)
  BY <1>1, <1>2, <1>4 DEF TableOK, Keyed
<1> QED
  BY <1>2, <1>4, <1>6, <1>7 DEF TableOK, new, after, id

(* A bank product overwritten: it keeps its id, and its bank is there.     *)
LEMMA ProductChanged ==
  ASSUME NEW tables, TableOK(tables), NEW old \in tables.bank_product, NEW new \in BankProduct,
         new.id = old.id, \E b \in tables.banks : b.code = new.bank, new.properties \in Properties
  PROVE  LET after == Changed(tables, "bank_product", old, new)
         IN  /\ TableOK(after)
             /\ after.bank_product = (tables.bank_product \ {old}) \cup {new}
             /\ \A t \in DOMAIN tables \ {"bank_product"} : after[t] = tables[t]
<1> DEFINE after == Changed(tables, "bank_product", old, new)
<1>1. after = [tables EXCEPT !.bank_product = (tables.bank_product \ {old}) \cup {new}]
  BY DEF Changed
<1> HIDE DEF after
<1>2. /\ DOMAIN after = DOMAIN EmptyDb
      /\ after.bank_product = (tables.bank_product \ {old}) \cup {new}
      /\ \A t \in DOMAIN tables \ {"bank_product"} : after[t] = tables[t]
      /\ after.banks = tables.banks /\ after.network_manager = tables.network_manager
      /\ after.isp = tables.isp /\ after.isp_configuration = tables.isp_configuration
  BY <1>1 DEF TableOK, Typed, EmptyDb
<1>3. \A t \in Numbered : IsFiniteSet(after[t])
  <2>1. IsFiniteSet(after.bank_product)
    <3>1. IsFiniteSet(tables.bank_product)
      BY DEF TableOK, Typed, Numbered
    <3>2. IsFiniteSet(tables.bank_product \ {old})
      BY <3>1, FS_RemoveElement
    <3> QED
      BY <1>2, <3>2, FS_AddElement
  <2> QED
    BY <1>2, <2>1 DEF TableOK, Typed, Numbered, EmptyDb
<1>4. Typed(after)
  BY <1>2, <1>3 DEF TableOK, Typed
<1>5. Keyed(after)
  BY <1>2 DEF TableOK, Keyed, Properties
<1> QED
  BY <1>2, <1>4, <1>5 DEF TableOK, after

(* A network manager overwritten: it keeps its id, and no other has its    *)
(* new name.                                                               *)
LEMMA ManagerChanged ==
  ASSUME NEW tables, TableOK(tables), NEW old \in tables.network_manager, NEW new \in NetworkManager,
         new.id = old.id,
         \A m \in tables.network_manager : m.name = new.name => m = old
  PROVE  LET after == Changed(tables, "network_manager", old, new)
         IN  /\ TableOK(after)
             /\ after.network_manager = (tables.network_manager \ {old}) \cup {new}
             /\ \A t \in DOMAIN tables \ {"network_manager"} : after[t] = tables[t]
<1> DEFINE after == Changed(tables, "network_manager", old, new)
<1>1. after = [tables EXCEPT !.network_manager = (tables.network_manager \ {old}) \cup {new}]
  BY DEF Changed
<1> HIDE DEF after
<1>2. /\ DOMAIN after = DOMAIN EmptyDb
      /\ after.network_manager = (tables.network_manager \ {old}) \cup {new}
      /\ \A t \in DOMAIN tables \ {"network_manager"} : after[t] = tables[t]
      /\ after.banks = tables.banks /\ after.bank_product = tables.bank_product
      /\ after.isp = tables.isp /\ after.isp_configuration = tables.isp_configuration
  BY <1>1 DEF TableOK, Typed, EmptyDb
<1>3. \A t \in Numbered : IsFiniteSet(after[t])
  <2>1. IsFiniteSet(after.network_manager)
    <3>1. IsFiniteSet(tables.network_manager)
      BY DEF TableOK, Typed, Numbered
    <3>2. IsFiniteSet(tables.network_manager \ {old})
      BY <3>1, FS_RemoveElement
    <3> QED
      BY <1>2, <3>2, FS_AddElement
  <2> QED
    BY <1>2, <2>1 DEF TableOK, Typed, Numbered, EmptyDb
<1>4. Typed(after)
  BY <1>2, <1>3 DEF TableOK, Typed
<1>5. Keyed(after)
  BY <1>2 DEF TableOK, Keyed
<1> QED
  BY <1>2, <1>4, <1>5 DEF TableOK, after

(* The configuration of an ISP overwritten: its ISP is there.              *)
LEMMA IspConfigurationChanged ==
  ASSUME NEW tables, TableOK(tables), NEW old \in tables.isp_configuration, NEW new \in IspConfiguration,
         \E i \in tables.isp : i.id = new.isp_id
  PROVE  LET after == Changed(tables, "isp_configuration", old, new)
         IN  /\ TableOK(after)
             /\ after.isp_configuration = (tables.isp_configuration \ {old}) \cup {new}
             /\ \A t \in DOMAIN tables \ {"isp_configuration"} : after[t] = tables[t]
<1> DEFINE after == Changed(tables, "isp_configuration", old, new)
<1>1. after = [tables EXCEPT !.isp_configuration = (tables.isp_configuration \ {old}) \cup {new}]
  BY DEF Changed
<1> HIDE DEF after
<1>2. /\ DOMAIN after = DOMAIN EmptyDb
      /\ after.isp_configuration = (tables.isp_configuration \ {old}) \cup {new}
      /\ \A t \in DOMAIN tables \ {"isp_configuration"} : after[t] = tables[t]
      /\ after.banks = tables.banks /\ after.bank_product = tables.bank_product
      /\ after.network_manager = tables.network_manager /\ after.isp = tables.isp
  BY <1>1 DEF TableOK, Typed, EmptyDb
<1>3. \A t \in Numbered : IsFiniteSet(after[t])
  <2>1. IsFiniteSet(after.isp_configuration)
    <3>1. IsFiniteSet(tables.isp_configuration)
      BY DEF TableOK, Typed, Numbered
    <3>2. IsFiniteSet(tables.isp_configuration \ {old})
      BY <3>1, FS_RemoveElement
    <3> QED
      BY <1>2, <3>2, FS_AddElement
  <2> QED
    BY <1>2, <2>1 DEF TableOK, Typed, Numbered, EmptyDb
<1>4. Typed(after)
  BY <1>2, <1>3 DEF TableOK, Typed
<1>5. Keyed(after)
  BY <1>2 DEF TableOK, Keyed
<1> QED
  BY <1>2, <1>4, <1>5 DEF TableOK, after

(* A network manager removed: the ISPs that had it have none.              *)
LEMMA ManagerRemoved ==
  ASSUME TableOK(db), NEW m, RemoveNetworkManager(m)
  PROVE  /\ TableOK(db)'
         /\ \A t \in DOMAIN db \ {"network_manager", "isp"} : db'[t] = db[t]
<1> DEFINE Left(i) == IF i.network_manager_id = m.id
                      THEN [i EXCEPT !.network_manager_id = NULL] ELSE i
<1>1. /\ DOMAIN db' = DOMAIN EmptyDb
      /\ db'.network_manager = db.network_manager \ {m}
      /\ db'.isp = {Left(i) : i \in db.isp}
      /\ \A t \in DOMAIN db \ {"network_manager", "isp"} : db'[t] = db[t]
      /\ db'.banks = db.banks /\ db'.bank_product = db.bank_product
      /\ db'.isp_configuration = db.isp_configuration
  BY DEF RemoveNetworkManager, TableOK, Typed, EmptyDb
<1>2. \A i \in db.isp : /\ Left(i) \in Isp /\ Left(i).id = i.id
                        /\ \/ Left(i).network_manager_id = NULL
                           \/ /\ Left(i).network_manager_id = i.network_manager_id
                              /\ i.network_manager_id # m.id
  BY DEF TableOK, Typed, Isp
<1>3. IsFiniteSet(db'.network_manager) /\ IsFiniteSet(db'.isp)
  <2>1. IsFiniteSet(db.network_manager) /\ IsFiniteSet(db.isp)
    BY DEF TableOK, Typed, Numbered
  <2> DEFINE f == [i \in db.isp |-> Left(i)]
  <2>2. f \in Surjection(db.isp, db'.isp)
    BY <1>1 DEF Surjection
  <2> HIDE DEF f
  <2>3. IsFiniteSet(db'.isp)
    BY <2>1, <2>2, FS_Surjection
  <2>4. IsFiniteSet(db.network_manager \ {m})
    BY <2>1, FS_RemoveElement
  <2> QED
    BY <1>1, <2>3, <2>4
<1> HIDE DEF Left
<1>4. Typed(db)'
  BY <1>1, <1>2, <1>3 DEF TableOK, Typed, Numbered, EmptyDb
<1>5. Keyed(db)'
  BY <1>1, <1>2 DEF TableOK, Keyed
<1> QED
  BY <1>1, <1>4, <1>5 DEF TableOK
-----------------------------------------------------------------------------
(***************************************************************************)
(* Start-up.  What a service still has to insert fits the tables as they   *)
(* are, and stays so while the rest of its inserts land: no two of them    *)
(* have one name, none has a name that is there, and the configuration of  *)
(* the demo ISP comes after the ISP, whose id it foretells.                *)
(***************************************************************************)
Sound(write) ==
    /\ write.table \in DOMAIN EmptyDb
    /\ write.table = "banks" => /\ write.row \in Bank
                                /\ \A b \in write.old : b.code = write.row.code
    /\ write.table # "banks" => write.old = {}
    /\ write.table = "bank_product" => write.row \in NewProduct
    /\ write.table = "network_manager" => write.row \in NewManager
    /\ write.table = "isp" =>
          /\ write.row \in NewIsp
          /\ \E m \in db.network_manager : m.id = write.row.network_manager_id
    /\ write.table = "isp_configuration" => write.row \in NewIspConfiguration

NameFree(write) ==
    /\ write.table = "network_manager" =>
          \A m \in db.network_manager : m.name # write.row.name
    /\ write.table = "bank_product" =>
          \A p \in db.bank_product : ~ (p.bank = write.row.bank /\ p.name = write.row.name)

SameName(w, v) ==
    \/ /\ w.table = "network_manager" /\ v.table = "network_manager"
       /\ w.row.name = v.row.name
    \/ /\ w.table = "bank_product" /\ v.table = "bank_product"
       /\ w.row.bank = v.row.bank /\ w.row.name = v.row.name

(* The ISP of a configuration is there, or is what the first batch inserts.*)
IspComes(write, i, todo) ==
    \/ \E isp \in db.isp : isp.id = write.row.isp_id
    \/ \E j \in DOMAIN todo :
          /\ j < i /\ \A k \in DOMAIN todo : j <= k
          /\ \A w \in todo[j] : w.table = "isp" /\ NewId(db.isp, w.row.name) = write.row.isp_id

TodoOK(todo) ==
    /\ DOMAIN todo \subseteq Nat
    /\ \A i \in DOMAIN todo : \A w \in todo[i] :
          /\ Sound(w) /\ NameFree(w)
          /\ \A j \in DOMAIN todo : \A v \in todo[j] : SameName(w, v) => i = j /\ w = v
          /\ w.table = "isp_configuration" => IspComes(w, i, todo)

LEMMA FieldsTyped ==
  /\ Absent \in Field /\ Empty \in Field
  /\ \A text \in Texts : Plain(text) \in Field /\ encrypt(Plain(text)) \in Field
  /\ \A f \in Field : encrypt(f) \in Field /\ decrypt(f) \in Field /\ EncryptTruthy(f) \in Field
  /\ \A f, g \in Field : Merged(f, g) \in Field
BY DEF Absent, Empty, Plain, encrypt, decrypt, Field, Merged, EncryptTruthy

(* The services with one batch, of rows that refer to no others.           *)
LEMMA PlainPlans ==
  ASSUME TableOK(db)
  PROVE  TodoOK(GlobalConfigPlan) /\ TodoOK(CommissionPlan) /\ TodoOK(AdminUserPlan)
<1>1. TodoOK(GlobalConfigPlan)
  BY DEF GlobalConfigPlan, Insert, TodoOK, Sound, NameFree, SameName, EmptyDb
<1>2. TodoOK(CommissionPlan)
  BY DEF CommissionPlan, Insert, TodoOK, Sound, NameFree, SameName, EmptyDb
<1>3. TodoOK(AdminUserPlan)
  BY DEF AdminUserPlan, Insert, TodoOK, Sound, NameFree, SameName, EmptyDb
<1> QED
  BY <1>1, <1>2, <1>3

LEMMA BanksPlan ==
  ASSUME TableOK(db) PROVE TodoOK(BankPlan)
<1> DEFINE todo == BankPlan
           Existing(code) == {b \in db.banks : b.code = code}
           Write(i) == [table |-> "banks",
                        row |-> [code |-> BankList[i][1], name |-> BankList[i][2]],
                        old |-> Existing(BankList[i][1])]
<1>1. DOMAIN todo \subseteq DOMAIN BankList
      /\ \A i \in DOMAIN todo : todo[i] = {Write(i)}
  BY DEF BankPlan
<1>2. \A i \in DOMAIN BankList : i \in Nat /\ BankList[i] \in Codes \X BankNames
  BY InitializationAssumption
<1>3. \A i \in DOMAIN BankList : /\ Write(i).table = "banks" /\ Write(i).row \in Bank
                                 /\ \A b \in Write(i).old : b.code = Write(i).row.code
  BY <1>2 DEF Bank
<1> HIDE DEF todo, Write
<1>4. TodoOK(todo)
  BY <1>1, <1>2, <1>3 DEF TodoOK, Sound, NameFree, SameName, EmptyDb
<1> QED
  BY <1>4 DEF todo

LEMMA ProductsPlan ==
  ASSUME TableOK(db) PROVE TodoOK(BankProductPlan)
<1> DEFINE todo == BankProductPlan
           There(p) == \E q \in db.bank_product : q.bank = p.bank /\ q.name = p.name
           Write(p) == Insert("bank_product", ProductRow(p))
<1>1. /\ DOMAIN todo \subseteq DOMAIN ProductsByBank
      /\ \A i \in DOMAIN todo : \A w \in todo[i] :
            \E p \in ProductsByBank[i] : ~There(p) /\ w = Write(p)
  BY DEF BankProductPlan
<1>2. DOMAIN ProductsByBank \subseteq Nat
  BY InitializationAssumption
<1>3. \A i \in DOMAIN ProductsByBank : \A p \in ProductsByBank[i] :
         /\ Write(p).table = "bank_product" /\ Write(p).row \in NewProduct
         /\ Write(p).old = {}
         /\ Write(p).row.bank = p.bank /\ Write(p).row.name = p.name
  <2> SUFFICES ASSUME NEW i \in DOMAIN ProductsByBank, NEW p \in ProductsByBank[i]
               PROVE  /\ Write(p).table = "bank_product" /\ Write(p).row \in NewProduct
                      /\ Write(p).old = {}
                      /\ Write(p).row.bank = p.bank /\ Write(p).row.name = p.name
      OBVIOUS
  <2>1. p \in [bank : Codes \cap Texts, name : STRING, currency : {"USD", "VES"},
               rate : Nat, properties : SUBSET Texts]
    BY InitializationAssumption
  <2>2. encrypt(Plain(p.bank)) \in Field
    BY <2>1, FieldsTyped
  <2>3. <<[currency |-> p.currency, rate |-> p.rate]>> \in Seq(Rate)
    BY <2>1 DEF Rate
  <2>4. {[key |-> k, value |-> "seeded"] : k \in p.properties} \in Properties
    <3>1. "seeded" \in Texts
      BY InitializationAssumption
    <3>2. \A k \in p.properties : [key |-> k, value |-> "seeded"] \in Property
      BY <2>1, <3>1 DEF Property
    <3> QED
      BY <3>2 DEF Properties
  <2>5. ProductRow(p) \in NewProduct
    BY <2>1, <2>2, <2>3, <2>4 DEF ProductRow, NewProduct
  <2> QED
    BY <2>5 DEF Insert, ProductRow
<1> HIDE DEF todo, Write
<1>4. \A i, j \in DOMAIN todo : \A w \in todo[i], v \in todo[j] :
         SameName(w, v) => i = j /\ w = v
  BY <1>1, <1>3, InitializationAssumption DEF SameName
<1>5. \A i \in DOMAIN todo : \A w \in todo[i] :
         w.table = "bank_product" /\ Sound(w) /\ NameFree(w)
  BY <1>1, <1>3 DEF Sound, NameFree, EmptyDb
<1>6. TodoOK(todo)
  BY <1>1, <1>2, <1>4, <1>5 DEF TodoOK
<1> QED
  BY <1>6 DEF todo

LEMMA ManagersPlan ==
  ASSUME TableOK(db) PROVE TodoOK(NetworkManagerPlan)
<1>1. CASE db.network_manager # {}
  BY <1>1 DEF NetworkManagerPlan, TodoOK
<1>2. CASE db.network_manager = {}
  <2> DEFINE Write(name) == Insert("network_manager", ManagerRow(name))
             todo == <<{Write(name) : name \in DOMAIN Managers}>>
  <2>1. ASSUME NEW name \in DOMAIN Managers
        PROVE  /\ Write(name).table = "network_manager" /\ Write(name).row.name = name
               /\ Write(name).row \in NewManager /\ Write(name).old = {}
    <3>1. name \in Names /\ name \in Texts
      BY InitializationAssumption
    <3> QED
      BY <3>1, FieldsTyped DEF Insert, ManagerRow, NewManager
  <2> HIDE DEF Write
  <2>2. TodoOK(todo)
    BY <1>2, <2>1 DEF TodoOK, Sound, NameFree, SameName, EmptyDb
  <2> QED
    BY <1>2, <2>2 DEF NetworkManagerPlan, Write
<1> QED
  BY <1>1, <1>2

(* The demo ISP's configuration names the id the ISP will get: the table   *)
(* is empty, and all managers of one name are one.                         *)
LEMMA IspsPlan ==
  ASSUME TableOK(db) PROVE TodoOK(IspPlan)
<1>1. CASE db.isp # {} \/ ManagersNamed("MIKROWISP") = {}
  <2>1. IspPlan = <<>>
    BY <1>1 DEF IspPlan
  <2> QED
    BY <2>1 DEF TodoOK
<1>2. CASE db.isp = {} /\ ManagersNamed("MIKROWISP") # {}
  <2> DEFINE config == [isp_id |-> NewId(db.isp, "MIKROWISP"),
                        instance_token |-> encrypt(Plain("demo"))]
             First == {Insert("isp", IspOf(m, TRUE)) : m \in ManagersNamed("MIKROWISP")}
             Second == {Insert("isp_configuration", config)}
             Third == {Insert("isp", IspOf(m, FALSE)) : m \in ManagersNamed("WISPHUB")}
             todo == IspPlan
  <2>1. todo = <<First, Second>> \/ todo = <<First, Second, Third>>
    BY <1>2 DEF IspPlan
  <2>2. \A w \in First \cup Third : w.table = "isp" /\ Sound(w)
    <3>1. ASSUME NEW m \in db.network_manager, NEW active \in BOOLEAN
          PROVE  IspOf(m, active) \in NewIsp /\ IspOf(m, active).network_manager_id = m.id
      <4>1. m \in NetworkManager
        BY DEF TableOK, Typed
      <4> QED
        BY <4>1 DEF IspOf, NewIsp, NetworkManager
    <3>2. ASSUME NEW m \in db.network_manager, NEW active \in BOOLEAN
          PROVE  Insert("isp", IspOf(m, active)).table = "isp" /\ Sound(Insert("isp", IspOf(m, active)))
      BY <3>1 DEF Insert, Sound, EmptyDb
    <3> HIDE DEF todo, config, Second
    <3>3. ASSUME NEW w \in First PROVE w.table = "isp" /\ Sound(w)
      <4>1. PICK m \in ManagersNamed("MIKROWISP") : w = Insert("isp", IspOf(m, TRUE))
        OBVIOUS
      <4>2. m \in db.network_manager
        BY DEF ManagersNamed
      <4> HIDE DEF First, Third
      <4> QED
        BY <3>2, <4>1, <4>2
    <3>4. ASSUME NEW w \in Third PROVE w.table = "isp" /\ Sound(w)
      <4>1. PICK m \in ManagersNamed("WISPHUB") : w = Insert("isp", IspOf(m, FALSE))
        OBVIOUS
      <4>2. m \in db.network_manager
        BY DEF ManagersNamed
      <4> HIDE DEF First, Third
      <4> QED
        BY <3>2, <4>1, <4>2
    <3> QED
      BY <3>3, <3>4
  <2>3. \A w \in First : NewId(db.isp, w.row.name) = config.isp_id
    BY DEF Insert, IspOf, ManagersNamed
  <2>4. config \in NewIspConfiguration
    <3>1. encrypt(Plain("demo")) \in Field
      BY FieldsTyped, InitializationAssumption
    <3>2. "MIKROWISP" \in Names
      BY <1>2 DEF ManagersNamed, TableOK, Typed, NetworkManager
    <3>3. NewId(db.isp, "MIKROWISP") \in Names \X Nat
      BY <1>2, <3>2, FS_EmptySet, NewIdFresh
    <3> HIDE DEF First, Second, Third, todo
    <3> QED
      BY <3>1, <3>3 DEF NewIspConfiguration
  <2>5. \A w \in Second : w.table = "isp_configuration" /\ Sound(w) /\ w.row = config
    BY <2>4 DEF Insert, Sound, EmptyDb
  <2> HIDE DEF config, First, Second, Third, todo
  <2>6. /\ DOMAIN todo \subseteq Nat /\ {1, 2} \subseteq DOMAIN todo
        /\ \A i \in DOMAIN todo : 1 <= i
        /\ todo[1] = First /\ todo[2] = Second
        /\ \A i \in DOMAIN todo \ {1, 2} : todo[i] = Third
    BY <2>1
  <2>7. \A i \in DOMAIN todo : \A w \in todo[i] :
           /\ Sound(w) /\ NameFree(w) /\ w.table \in {"isp", "isp_configuration"}
           /\ w.table = "isp_configuration" => i = 2 /\ w \in Second
    BY <2>2, <2>5, <2>6 DEF NameFree
  <2>8. \A i \in DOMAIN todo : \A w \in todo[i] :
           w.table = "isp_configuration" => IspComes(w, i, todo)
    BY <2>2, <2>3, <2>5, <2>6, <2>7 DEF IspComes
  <2>9. TodoOK(todo)
    BY <2>6, <2>7, <2>8 DEF TodoOK, SameName
  <2> QED
    BY <2>9 DEF todo
<1> QED
  BY <1>1, <1>2

LEMMA PlanOK ==
  ASSUME TableOK(db), NEW i \in DOMAIN Services PROVE TodoOK(Plan(Services[i]))
<1>1. Services[i] \in {"globalConfig", "commission", "bank", "bankProduct",
                       "networkManager", "isp", "adminUser"}
  BY DEF Services
<1>2. /\ Plan("globalConfig") = GlobalConfigPlan /\ Plan("commission") = CommissionPlan
      /\ Plan("bank") = BankPlan /\ Plan("bankProduct") = BankProductPlan
      /\ Plan("networkManager") = NetworkManagerPlan
      /\ Plan("isp") = IspPlan /\ Plan("adminUser") = AdminUserPlan
  BY DEF Plan
<1> QED
  BY <1>1, <1>2, PlainPlans, BanksPlan, ProductsPlan, ManagersPlan, IspsPlan
(* What one insert does to the tables.                                     *)
Grows ==
    /\ \A table \in DOMAIN db \ {"banks"} : db[table] \subseteq db'[table]
    /\ {b.code : b \in db.banks} \subseteq {b.code : b \in db.banks'}

Adds(write) ==
    /\ \A m \in db'.network_manager :
          \/ m \in db.network_manager
          \/ write.table = "network_manager" /\ m.name = write.row.name
    /\ \A p \in db'.bank_product :
          \/ p \in db.bank_product
          \/ write.table = "bank_product" /\ p.bank = write.row.bank /\ p.name = write.row.name
    /\ write.table = "isp" => \E i \in db'.isp : i.id = NewId(db.isp, write.row.name)

LEMMA GrowsInTable ==
  ASSUME DOMAIN db = DOMAIN EmptyDb, NEW t \in DOMAIN db \ {"banks"}, db[t] \subseteq db'[t],
         \A u \in DOMAIN db \ {t} : db'[u] = db[u]
  PROVE  Grows
<1>1. "banks" \in DOMAIN db
  BY DEF EmptyDb
<1> QED
  BY <1>1 DEF Grows

LEMMA OneInsert ==
  ASSUME TableOK(db), NEW write, Sound(write), NameFree(write), Connects(write),
         write.table = "isp_configuration" => \E i \in db.isp : i.id = write.row.isp_id,
         db' = IF write.table \in Numbered
               THEN Created(db, write.table, write.row)
               ELSE [db EXCEPT ![write.table] = (@ \ write.old) \cup {write.row}]
  PROVE  TableOK(db)' /\ Grows /\ Adds(write)
<1> DEFINE row == write.row
<1>1. CASE write.table = "bank_product"
  <2> DEFINE new == WithId(NewId(db.bank_product, <<row.bank, row.name>>), row)
  <2>1. row \in NewProduct /\ \E b \in db.banks : b.code = row.bank
    BY <1>1 DEF Sound, Connects
  <2>2. db' = Created(db, "bank_product", row)
    BY <1>1 DEF Numbered
  <2>3. /\ TableOK(db')
        /\ db'.bank_product = db.bank_product \cup {new}
        /\ new.bank = row.bank /\ new.name = row.name
        /\ \A t \in DOMAIN db \ {"bank_product"} : db'[t] = db[t]
    <3>1. LET after == Created(db, "bank_product", row)
          IN  /\ TableOK(after)
              /\ after.bank_product = db.bank_product \cup {new}
              /\ new.bank = row.bank /\ new.name = row.name
              /\ \A t \in DOMAIN db \ {"bank_product"} : after[t] = db[t]
      <4> HIDE DEF row
      <4> QED
        BY <2>1, ProductCreated
    <3> HIDE DEF new
    <3> QED
      BY <2>2, <3>1
  <2> HIDE DEF new
  <2>4. TableOK(db)'
    BY <2>3 DEF TableOK, Typed, Keyed
  <2> QED
    <3>1. DOMAIN db = DOMAIN EmptyDb
      BY DEF TableOK, Typed
    <3>2. "bank_product" \in DOMAIN db /\ db["bank_product"] \subseteq db'["bank_product"]
      BY <2>3, <3>1 DEF EmptyDb
    <3>3. Grows
      BY <2>3, <3>1, <3>2, GrowsInTable
    <3>4. db'.network_manager = db.network_manager /\ db'.isp = db.isp
      BY <2>3, <3>1 DEF EmptyDb
    <3>5. Adds(write)
      BY <1>1, <2>3, <3>4 DEF Adds
    <3> QED
      BY <2>4, <3>3, <3>5
<1>2. CASE write.table = "network_manager"
  <2> DEFINE new == WithId(NewId(db.network_manager, row.name), row)
  <2>1. row \in NewManager /\ \A m \in db.network_manager : m.name # row.name
    BY <1>2 DEF Sound, NameFree
  <2>2. db' = Created(db, "network_manager", row)
    BY <1>2 DEF Numbered
  <2>3. /\ TableOK(db')
        /\ db'.network_manager = db.network_manager \cup {new}
        /\ new.name = row.name
        /\ \A t \in DOMAIN db \ {"network_manager"} : db'[t] = db[t]
    <3>1. LET after == Created(db, "network_manager", row)
          IN  /\ TableOK(after)
              /\ after.network_manager = db.network_manager \cup {new}
              /\ new.name = row.name
              /\ \A t \in DOMAIN db \ {"network_manager"} : after[t] = db[t]
      <4> HIDE DEF row
      <4> QED
        BY <2>1, ManagerCreated
    <3> HIDE DEF new
    <3> QED
      BY <2>2, <3>1
  <2> HIDE DEF new
  <2>4. TableOK(db)'
    BY <2>3 DEF TableOK, Typed, Keyed
  <2> QED
    <3>1. DOMAIN db = DOMAIN EmptyDb
      BY DEF TableOK, Typed
    <3>2. "network_manager" \in DOMAIN db /\ db["network_manager"] \subseteq db'["network_manager"]
      BY <2>3, <3>1 DEF EmptyDb
    <3>3. Grows
      BY <2>3, <3>1, <3>2, GrowsInTable
    <3>4. db'.bank_product = db.bank_product /\ db'.isp = db.isp
      BY <2>3, <3>1 DEF EmptyDb
    <3>5. Adds(write)
      BY <1>2, <2>3, <3>4 DEF Adds
    <3> QED
      BY <2>4, <3>3, <3>5
<1>3. CASE write.table = "isp"
  <2> DEFINE new == WithId(NewId(db.isp, row.name), row)
  <2>1. row \in NewIsp /\ \E m \in db.network_manager : m.id = row.network_manager_id
    BY <1>3 DEF Sound
  <2>2. db' = Created(db, "isp", row)
    BY <1>3 DEF Numbered
  <2>3. /\ TableOK(db')
        /\ db'.isp = db.isp \cup {new}
        /\ new.id = NewId(db.isp, row.name)
        /\ \A t \in DOMAIN db \ {"isp"} : db'[t] = db[t]
    <3>1. LET after == Created(db, "isp", row)
          IN  /\ TableOK(after)
              /\ after.isp = db.isp \cup {new}
              /\ new.id = NewId(db.isp, row.name)
              /\ \A t \in DOMAIN db \ {"isp"} : after[t] = db[t]
      <4> HIDE DEF row
      <4> QED
        BY <2>1, IspCreated
    <3> HIDE DEF new
    <3> QED
      BY <2>2, <3>1
  <2> HIDE DEF new
  <2>4. TableOK(db)'
    BY <2>3 DEF TableOK, Typed, Keyed
  <2> QED
    <3>1. DOMAIN db = DOMAIN EmptyDb
      BY DEF TableOK, Typed
    <3>2. "isp" \in DOMAIN db /\ db["isp"] \subseteq db'["isp"]
      BY <2>3, <3>1 DEF EmptyDb
    <3>3. Grows
      BY <2>3, <3>1, <3>2, GrowsInTable
    <3>4. db'.network_manager = db.network_manager /\ db'.bank_product = db.bank_product
      BY <2>3, <3>1 DEF EmptyDb
    <3>5. Adds(write)
      BY <1>3, <2>3, <3>4 DEF Adds
    <3> QED
      BY <2>4, <3>3, <3>5
<1>4. CASE write.table = "isp_configuration"
  <2> DEFINE new == WithId(NewId(db.isp_configuration, row.isp_id), row)
  <2>1. row \in NewIspConfiguration /\ \E i \in db.isp : i.id = row.isp_id
    BY <1>4 DEF Sound
  <2>2. db' = Created(db, "isp_configuration", row)
    BY <1>4 DEF Numbered
  <2>3. /\ TableOK(db')
        /\ db'.isp_configuration = db.isp_configuration \cup {new}
        /\ \A t \in DOMAIN db \ {"isp_configuration"} : db'[t] = db[t]
    <3>1. LET after == Created(db, "isp_configuration", row)
          IN  /\ TableOK(after)
              /\ after.isp_configuration = db.isp_configuration \cup {new}
              /\ \A t \in DOMAIN db \ {"isp_configuration"} : after[t] = db[t]
      <4> HIDE DEF row
      <4> QED
        BY <2>1, IspConfigurationCreated
    <3> HIDE DEF new
    <3> QED
      BY <2>2, <3>1
  <2> HIDE DEF new
  <2>4. TableOK(db)'
    BY <2>3 DEF TableOK, Typed, Keyed
  <2> QED
    <3>1. DOMAIN db = DOMAIN EmptyDb
      BY DEF TableOK, Typed
    <3>2. "isp_configuration" \in DOMAIN db /\ db["isp_configuration"] \subseteq db'["isp_configuration"]
      BY <2>3, <3>1 DEF EmptyDb
    <3>3. Grows
      BY <2>3, <3>1, <3>2, GrowsInTable
    <3>4. db'.network_manager = db.network_manager /\ db'.bank_product = db.bank_product /\ db'.isp = db.isp
      BY <2>3, <3>1 DEF EmptyDb
    <3>5. Adds(write)
      BY <1>4, <2>3, <3>4 DEF Adds
    <3> QED
      BY <2>4, <3>3, <3>5
<1>5. CASE write.table \notin Numbered
  <2>1. db' = [db EXCEPT ![write.table] = (@ \ write.old) \cup {row}]
    BY <1>5
  <2>2. /\ DOMAIN db' = DOMAIN EmptyDb
        /\ \A t \in DOMAIN db \ {write.table} : db'[t] = db[t]
        /\ \A t \in Numbered : db'[t] = db[t]
        /\ write.table \in DOMAIN db
        /\ db'[write.table] = (db[write.table] \ write.old) \cup {row}
    BY <1>5, <2>1 DEF Sound, TableOK, Typed, Numbered, EmptyDb
  <2>3. /\ db'.banks \subseteq Bank
        /\ \A b \in db.banks : \E c \in db'.banks : c.code = b.code
    BY <2>2 DEF Sound, TableOK, Typed, EmptyDb
  <2>4. /\ db'.bank_product = db.bank_product /\ db'.network_manager = db.network_manager
        /\ db'.isp = db.isp /\ db'.isp_configuration = db.isp_configuration
    BY <2>2 DEF Numbered
  <2>5. TableOK(db)'
    BY <2>2, <2>3, <2>4 DEF TableOK, Typed, Keyed, Numbered
  <2>6. write.table # "isp"
    BY <1>5 DEF Numbered
  <2>7. \A table \in DOMAIN db \ {"banks"} : db[table] \subseteq db'[table]
    BY <2>2 DEF Sound
  <2>8. Grows
    BY <2>3, <2>7 DEF Grows
  <2>9. Adds(write)
    BY <2>4, <2>6 DEF Adds
  <2> QED
    BY <2>5, <2>8, <2>9
<1> QED
  BY <1>1, <1>2, <1>3, <1>4, <1>5 DEF Numbered
(* An insert of the first batch fits, and what is left of the batches      *)
(* still does once it has landed.                                          *)
LEMMA RowWritten ==
  ASSUME TableOK(db), boot.pc = "writing", boot.service \in DOMAIN Services,
         TodoOK(boot.todo), WriteRow
  PROVE  /\ TableOK(db)' /\ Grows
         /\ \A p \in db.bank_product' \ db.bank_product, q \in db.bank_product :
               ~ (p.bank = q.bank /\ p.name = q.name)
         /\ boot'.pc \in {"reading", "writing", "up"} /\ boot'.service \in DOMAIN Services
         /\ boot'.pc = "writing" => TodoOK(boot.todo)'
<1> DEFINE todo == boot.todo
<1>1. PICK next \in DOMAIN todo : \E write \in todo[next] :
         /\ \A i \in DOMAIN todo : next <= i
         /\ Connects(write)
         /\ db' = IF write.table \in Numbered
                  THEN Created(db, write.table, write.row)
                  ELSE [db EXCEPT ![write.table] = (@ \ write.old) \cup {write.row}]
         /\ LET left == [todo EXCEPT ![next] = @ \ {write}] IN
            boot' = Onward(boot.service, [i \in {j \in DOMAIN left : left[j] # {}} |-> left[i]])
  BY DEF WriteRow
<1>2. PICK write \in todo[next] :
         /\ Connects(write)
         /\ db' = IF write.table \in Numbered
                  THEN Created(db, write.table, write.row)
                  ELSE [db EXCEPT ![write.table] = (@ \ write.old) \cup {write.row}]
         /\ LET left == [todo EXCEPT ![next] = @ \ {write}] IN
            boot' = Onward(boot.service, [i \in {j \in DOMAIN left : left[j] # {}} |-> left[i]])
  BY <1>1
<1>3. \A i \in DOMAIN todo : next <= i
  BY <1>1
<1>4. PICK rest :
         /\ DOMAIN rest \subseteq DOMAIN todo
         /\ \A i \in DOMAIN rest : rest[i] \subseteq todo[i]
         /\ next \in DOMAIN rest => write \notin rest[next]
         /\ boot' = Onward(boot.service, rest)
  <2> DEFINE left == [todo EXCEPT ![next] = @ \ {write}]
             r == [i \in {j \in DOMAIN left : left[j] # {}} |-> left[i]]
  <2>1. /\ DOMAIN r \subseteq DOMAIN todo
        /\ \A i \in DOMAIN r : r[i] \subseteq todo[i]
        /\ next \in DOMAIN r => write \notin r[next]
    OBVIOUS
  <2>2. boot' = Onward(boot.service, r)
    BY <1>2
  <2> HIDE DEF r, left, todo
  <2> QED
    BY <2>1, <2>2
<1> HIDE DEF todo
<1>6. /\ DOMAIN todo \subseteq Nat
      /\ \A i \in DOMAIN todo : \A w \in todo[i] :
            /\ Sound(w) /\ NameFree(w)
            /\ \A j \in DOMAIN todo : \A v \in todo[j] : SameName(w, v) => i = j /\ w = v
            /\ w.table = "isp_configuration" => IspComes(w, i, todo)
  BY DEF TodoOK, todo
<1>7. ASSUME write.table = "isp_configuration" PROVE \E i \in db.isp : i.id = write.row.isp_id
  <2>1. IspComes(write, next, todo)
    BY <1>2, <1>6, <1>7
  <2>2. \A j \in DOMAIN todo : ~ (j < next)
    BY <1>3, <1>6
  <2> QED
    BY <2>1, <2>2 DEF IspComes
<1>8. TableOK(db)' /\ Grows /\ Adds(write)
  BY <1>2, <1>6, <1>7, OneInsert
<1>9. \A p \in db.bank_product' \ db.bank_product, q \in db.bank_product :
         ~ (p.bank = q.bank /\ p.name = q.name)
  <2>1. NameFree(write)
    BY <1>2, <1>6
  <2> QED
    BY <1>8, <2>1 DEF Adds, NameFree
<1>10. /\ boot'.pc \in {"reading", "writing", "up"} /\ boot'.service \in DOMAIN Services
       /\ boot'.pc = "writing" => boot'.todo = rest
  BY <1>4 DEF Onward, Services
<1>11. db.network_manager \subseteq db'.network_manager /\ db.isp \subseteq db'.isp
  BY <1>8 DEF TableOK, Typed, EmptyDb, Grows
<1>12. ASSUME NEW i \in DOMAIN rest, NEW w \in rest[i]
       PROVE  /\ Sound(w)' /\ NameFree(w)'
              /\ w.table = "isp_configuration" => IspComes(w, i, rest)'
  <2>1. i \in DOMAIN todo /\ w \in todo[i]
    BY <1>4
  <2>2. Sound(w)'
    BY <1>6, <1>11, <2>1 DEF Sound
  <2>3. ~ SameName(w, write)
    BY <1>2, <1>4, <1>6, <2>1
  <2>4. NameFree(w)'
    BY <1>6, <1>8, <2>1, <2>3 DEF NameFree, SameName, Adds
  <2>5. ASSUME w.table = "isp_configuration" PROVE \E isp \in db'.isp : isp.id = w.row.isp_id
    <3>1. CASE \E isp \in db.isp : isp.id = w.row.isp_id
      BY <1>11, <3>1
    <3>2. ASSUME NEW j \in DOMAIN todo, \A k \in DOMAIN todo : j <= k,
                 \A v \in todo[j] : v.table = "isp" /\ NewId(db.isp, v.row.name) = w.row.isp_id
          PROVE  \E isp \in db'.isp : isp.id = w.row.isp_id
      <4>1. j = next
        BY <1>3, <1>6, <3>2
      <4> QED
        BY <1>2, <1>8, <3>2, <4>1 DEF Adds
    <3> QED
      BY <1>6, <2>1, <2>5, <3>1, <3>2 DEF IspComes
  <2> QED
    BY <2>2, <2>4, <2>5 DEF IspComes
<1>13. ASSUME boot'.pc = "writing" PROVE TodoOK(boot.todo)'
  <2>1. \A i, j \in DOMAIN rest : \A w \in rest[i], v \in rest[j] :
           SameName(w, v) => i = j /\ w = v
    BY <1>4, <1>6
  <2>2. DOMAIN rest \subseteq Nat
    BY <1>4, <1>6
  <2>3. boot'.todo = rest
    BY <1>10, <1>13
  <2> QED
    BY <1>12, <2>1, <2>2, <2>3 DEF TodoOK
<1> QED
  BY <1>8, <1>9, <1>10, <1>13
-----------------------------------------------------------------------------
(***************************************************************************)
(* Administrators.  A product an update holds the id of is there, because  *)
(* no operation removes one or changes its id, and one with that id is the *)
(* only one; updates are under way only while the process is up, and what  *)
(* they have renamed is forgotten with it.                                 *)
(***************************************************************************)
ProductsStay ==
    \A p \in db.bank_product :
       \E q \in db'.bank_product : q.id = p.id

UpdateOK(call) ==
    /\ DOMAIN call = {"pc", "product", "dto", "existing", "next"}
    /\ call.pc \in {"idle", "done", "threw", "cut"} \cup UpdateInFlight
    /\ call.next \in Nat \ {0}
    /\ call.product # NULL => \E p \in db.bank_product : p.id = call.product
    /\ call.pc \in UpdateInFlight => /\ call.dto \in ProductDtos
                                     /\ \E p \in db.bank_product : p.id = call.product

AdminInv ==
    /\ DOMAIN update = Updates /\ contended \subseteq Updates
    /\ \A u \in Updates : UpdateOK(update[u]) /\ (update[u].pc \in UpdateInFlight => Up)

LEMMA UpdateStays ==
  ASSUME ProductsStay, NEW call, UpdateOK(call) PROVE UpdateOK(call)'
BY DEF ProductsStay, UpdateOK

LEMMA OthersStay ==
  ASSUME AdminInv, ProductsStay, Up', contended' \subseteq Updates, NEW u \in Updates,
         NEW call, update' = [update EXCEPT ![u] = call], UpdateOK(call)'
  PROVE  AdminInv'
<1>1. DOMAIN update' = Updates /\ \A v \in Updates : update'[v] = IF v = u THEN call ELSE update[v]
  BY DEF AdminInv
<1>2. ASSUME NEW v \in Updates PROVE UpdateOK(update[v])'
  <2>1. CASE v = u
    <3>1. update'[v] = call
      BY <1>1, <2>1
    <3> QED
      BY <3>1 DEF UpdateOK
  <2>2. CASE v # u
    <3>1. PICK c : c = update[v]
      OBVIOUS
    <3>2. UpdateOK(c)'
      BY <3>1, UpdateStays DEF AdminInv
    <3> QED
      BY <1>1, <2>2, <3>1, <3>2 DEF UpdateOK
  <2> QED
    BY <2>1, <2>2
<1> QED
  BY <1>1, <1>2 DEF AdminInv

LEMMA Overwritten ==
  ASSUME NEW S, NEW s \in Seq(S), NEW i, NEW e \in S
  PROVE  [s EXCEPT ![i] = e] \in Seq(S)
<1>1. CASE i \in 1..Len(s)
  BY <1>1, ExceptSeq
<1>2. CASE i \notin 1..Len(s)
  <2>1. [s EXCEPT ![i] = e] = s
    BY <1>2
  <2> QED
    BY <2>1
<1> QED
  BY <1>1, <1>2

(* One product overwritten, and nothing else.                              *)
LEMMA ProductWritten ==
  ASSUME TableOK(db), NEW old \in db.bank_product, NEW new \in BankProduct,
         new.id = old.id, \E b \in db.banks : b.code = new.bank, new.properties \in Properties,
         db' = Changed(db, "bank_product", old, new)
  PROVE  TableOK(db)' /\ ProductsStay
<1>1. LET after == Changed(db, "bank_product", old, new)
      IN  TableOK(after) /\ after.bank_product = (db.bank_product \ {old}) \cup {new}
  BY ProductChanged
<1>2. TableOK(db') /\ db'.bank_product = (db.bank_product \ {old}) \cup {new}
  BY <1>1
<1> QED
  BY <1>2 DEF TableOK, Typed, Keyed, ProductsStay

LEMMA StartUpdateOK ==
  ASSUME TableOK(db), AdminInv, Up, Up', NEW u \in Updates, NEW id, NEW dto \in ProductDtos,
         StartUpdate(u, id, dto)
  PROVE  TableOK(db)' /\ ProductsStay /\ AdminInv'
<1>1. db' = db /\ contended' \subseteq Updates /\ \E p \in db.bank_product : p.id = id
  BY DEF StartUpdate, AdminInv
<1>2. ProductsStay /\ TableOK(db)'
  BY <1>1 DEF ProductsStay, TableOK, Typed, Keyed
<1> DEFINE call == [IdleUpdate EXCEPT !.pc = "configurations", !.product = id, !.dto = dto]
<1>3. update' = [update EXCEPT ![u] = call]
  BY DEF StartUpdate
<1>4. /\ DOMAIN call = {"pc", "product", "dto", "existing", "next"}
      /\ call.pc = "configurations" /\ call.product = id /\ call.dto = dto /\ call.next = 1
  BY DEF IdleUpdate
<1> HIDE DEF call
<1>5. UpdateOK(call)'
  BY <1>1, <1>4 DEF UpdateOK, UpdateInFlight
<1> QED
  BY <1>1, <1>2, <1>3, <1>5, OthersStay DEF call
(* The product an update writes to, found by its id.                       *)
LEMMA ProductFound ==
  ASSUME NEW call, UpdateOK(call), call.pc \in UpdateInFlight
  PROVE  /\ ProductWith(call.product) \in db.bank_product
         /\ ProductWith(call.product).id = call.product
BY DEF UpdateOK, ProductWith

(* The steps that read leave the tables alone, and those that write write  *)
(* one product.                                                            *)
LEMMA ReadingStep ==
  ASSUME TableOK(db), AdminInv, Up', NEW u \in Updates, db' = db, contended' = contended,
         update[u].pc \in UpdateInFlight,
         NEW call, update' = [update EXCEPT ![u] = call],
         DOMAIN call = {"pc", "product", "dto", "existing", "next"},
         call.pc \in {"done", "threw"} \cup UpdateInFlight, call.next \in Nat \ {0},
         call.product = update[u].product, call.dto = update[u].dto
  PROVE  TableOK(db)' /\ ProductsStay /\ AdminInv'
<1>1. ProductsStay /\ TableOK(db)' /\ contended' \subseteq Updates
  BY DEF ProductsStay, TableOK, Typed, Keyed, AdminInv
<1>2. UpdateOK(update[u])
  BY DEF AdminInv
<1>3. UpdateOK(call)'
  BY <1>2 DEF UpdateOK, UpdateInFlight
<1> QED
  BY <1>1, <1>3, OthersStay

LEMMA WritingStep ==
  ASSUME TableOK(db), AdminInv, Up', NEW u \in Updates, UNCHANGED contended,
         update[u].pc \in UpdateInFlight,
         NEW old, old = ProductWith(update[u].product), NEW new \in BankProduct,
         new.id = old.id, \E b \in db.banks : b.code = new.bank, new.properties \in Properties,
         db' = Changed(db, "bank_product", old, new),
         NEW pc \in {"done", "threw"} \cup UpdateInFlight, NEW next \in Nat \ {0},
         update' = [update EXCEPT ![u] = [update[u] EXCEPT !.pc = pc, !.next = next]]
  PROVE  TableOK(db)' /\ ProductsStay /\ AdminInv'
<1>1. UpdateOK(update[u]) /\ contended' \subseteq Updates
  BY DEF AdminInv
<1>2. old \in db.bank_product
  BY <1>1, ProductFound
<1>3. ProductsStay /\ TableOK(db)'
  BY <1>2, ProductWritten
<1> DEFINE call == [update[u] EXCEPT !.pc = pc, !.next = next]
<1>4. /\ DOMAIN call = {"pc", "product", "dto", "existing", "next"}
      /\ call.pc = pc /\ call.product = update[u].product /\ call.dto = update[u].dto
      /\ call.next = next
  BY <1>1 DEF UpdateOK
<1>5. PICK c, d : c = call /\ d = update[u]
  OBVIOUS
<1> HIDE DEF call
<1>6. UpdateOK(d)'
  BY <1>1, <1>3, <1>5, UpdateStays
<1>7. UpdateOK(c)'
  BY <1>4, <1>5, <1>6 DEF UpdateOK, UpdateInFlight
<1> QED
  BY <1>1, <1>3, <1>5, <1>7, OthersStay DEF call

LEMMA ConfigurationStepOK ==
  ASSUME TableOK(db), AdminInv, Up', NEW u \in Updates,
         ReadConfigurations(u) \/ WriteConfiguration(u) \/ EndConfigurations(u)
  PROVE  TableOK(db)' /\ ProductsStay /\ AdminInv'
<1> DEFINE call == update[u]
<1>1. UpdateOK(call)
  BY DEF AdminInv
<1>2. /\ DOMAIN call = {"pc", "product", "dto", "existing", "next"}
      /\ call.next \in Nat \ {0}
  BY <1>1 DEF UpdateOK
<1>3. CASE ReadConfigurations(u)
  <2>1. PICK existing :
           /\ call.pc = "configurations"
           /\ update' = [update EXCEPT ![u].pc = "writingConfigurations", ![u].next = 1,
                                       ![u].existing = existing]
           /\ UNCHANGED <<db, contended, renamed>>
    BY <1>3 DEF ReadConfigurations
  <2>2. PICK c : c = [call EXCEPT !.pc = "writingConfigurations", !.next = 1,
                                  !.existing = existing]
    OBVIOUS
  <2>3. update' = [update EXCEPT ![u] = c]
    BY <2>1, <2>2, <1>2 DEF AdminInv
  <2>4. /\ DOMAIN c = DOMAIN call /\ c.product = call.product /\ c.dto = call.dto
        /\ c.pc \in UpdateInFlight /\ c.next \in Nat \ {0}
    BY <1>2, <2>2 DEF UpdateInFlight
  <2>5. update[u].pc \in UpdateInFlight /\ db' = db /\ contended' = contended
    BY <2>1 DEF UpdateInFlight
  <2>6. /\ DOMAIN c = {"pc", "product", "dto", "existing", "next"}
        /\ c.pc \in {"done", "threw"} \cup UpdateInFlight /\ c.next \in Nat \ {0}
        /\ c.product = update[u].product /\ c.dto = update[u].dto
    BY <1>2, <2>4
  <2> HIDE DEF call
  <2> QED
    BY <2>3, <2>5, <2>6, ReadingStep
<1>4. CASE EndConfigurations(u)
  <2>1. /\ call.pc = "writingConfigurations"
        /\ update' = [update EXCEPT ![u].pc = "properties", ![u].existing = {}]
        /\ UNCHANGED <<db, contended, renamed>>
    BY <1>4 DEF EndConfigurations
  <2>2. PICK c : c = [call EXCEPT !.pc = "properties", !.existing = {}]
    OBVIOUS
  <2>3. update' = [update EXCEPT ![u] = c]
    BY <2>1, <2>2, <1>2 DEF AdminInv
  <2>4. /\ DOMAIN c = DOMAIN call /\ c.product = call.product /\ c.dto = call.dto
        /\ c.pc \in UpdateInFlight /\ c.next \in Nat \ {0}
    BY <1>2, <2>2 DEF UpdateInFlight
  <2>5. update[u].pc \in UpdateInFlight /\ db' = db /\ contended' = contended
    BY <2>1 DEF UpdateInFlight
  <2>6. /\ DOMAIN c = {"pc", "product", "dto", "existing", "next"}
        /\ c.pc \in {"done", "threw"} \cup UpdateInFlight /\ c.next \in Nat \ {0}
        /\ c.product = update[u].product /\ c.dto = update[u].dto
    BY <1>2, <2>4
  <2> HIDE DEF call
  <2> QED
    BY <2>3, <2>5, <2>6, ReadingStep
<1>5. CASE WriteConfiguration(u)
  <2> DEFINE p == ProductWith(call.product)
             config == call.dto.configurations[call.next]
             found == {e[2] : e \in {x \in call.existing : x[1] = config.currency}}
             new == [p EXCEPT !.configurations = IF found = {} THEN Append(@, config)
                                                 ELSE [@ EXCEPT ![CHOOSE i \in found : TRUE] = config]]
  <2>1. /\ call.pc = "writingConfigurations"
        /\ call.next <= Len(call.dto.configurations)
        /\ db' = Changed(db, "bank_product", p, new)
        /\ update' = [update EXCEPT ![u].next = @ + 1]
        /\ UNCHANGED contended
    BY <1>5 DEF WriteConfiguration
  <2>2. config \in Rate
    <3>1. call.dto.configurations \in Seq(Rate)
      BY <1>1, <2>1, ConfigurationAssumption DEF UpdateOK, UpdateInFlight, TypedDto
    <3> HIDE DEF call
    <3> QED
      BY <1>2, <2>1, <3>1
  <2>3. p \in db.bank_product
    BY <1>1, <2>1, ProductFound DEF UpdateInFlight
  <2>4. p \in BankProduct
    BY <2>3 DEF TableOK, Typed
  <2>5. /\ new \in BankProduct /\ new.properties \in Properties
        /\ new.id = p.id /\ \E b \in db.banks : b.code = new.bank
    <3> DEFINE row == CHOOSE i \in found : TRUE
    <3>0. p.properties \in Properties /\ \E b \in db.banks : b.code = p.bank
      BY <2>3 DEF TableOK, Typed, Keyed, BankProduct, Properties
    <3> HIDE DEF config, found, p, row
    <3>1. p.configurations \in Seq(Rate)
      BY <2>4 DEF BankProduct
    <3>2. Append(p.configurations, config) \in Seq(Rate)
      BY <2>2, <3>1
    <3>3. [p.configurations EXCEPT ![row] = config] \in Seq(Rate)
      BY <2>2, <3>1, Overwritten
    <3> QED
      BY <2>4, <3>0, <3>2, <3>3 DEF BankProduct, row
  <2> HIDE DEF new, p
  <2>6. PICK next \in Nat \ {0} : next = call.next + 1
    BY <1>2
  <2>7. update' = [update EXCEPT ![u] = [update[u] EXCEPT !.pc = "writingConfigurations",
                                                          !.next = next]]
    BY <2>1, <2>6, <1>2 DEF AdminInv
  <2>8. /\ UNCHANGED contended /\ update[u].pc \in UpdateInFlight
        /\ "writingConfigurations" \in {"done", "threw"} \cup UpdateInFlight
        /\ p = ProductWith(update[u].product)
    BY <2>1 DEF UpdateInFlight, p
  <2> HIDE DEF call
  <2> QED
    BY <2>1, <2>5, <2>7, <2>8, WritingStep
<1> QED
  BY <1>3, <1>4, <1>5
LEMMA PropertyStepOK ==
  ASSUME TableOK(db), AdminInv, Up', NEW u \in Updates,
         ReadProperties(u) \/ WriteProperty(u) \/ EndProperties(u)
  PROVE  TableOK(db)' /\ ProductsStay /\ AdminInv'
<1> DEFINE call == update[u]
<1>1. UpdateOK(call)
  BY DEF AdminInv
<1>2. /\ DOMAIN call = {"pc", "product", "dto", "existing", "next"}
      /\ call.next \in Nat \ {0}
  BY <1>1 DEF UpdateOK
<1>3. CASE ReadProperties(u)
  <2> DEFINE existing == {x.key : x \in ProductWith(call.product).properties}
  <2>1. /\ call.pc = "properties"
        /\ update' = [update EXCEPT ![u].pc = "writingProperties", ![u].next = 1,
                                    ![u].existing = existing]
        /\ UNCHANGED <<db, contended, renamed>>
    BY <1>3 DEF ReadProperties
  <2> HIDE DEF existing
  <2>2. PICK c : c = [call EXCEPT !.pc = "writingProperties", !.next = 1, !.existing = existing]
    OBVIOUS
  <2>3. update' = [update EXCEPT ![u] = c]
    BY <2>1, <2>2, <1>2 DEF AdminInv
  <2>4. /\ DOMAIN c = DOMAIN call /\ c.product = call.product /\ c.dto = call.dto
        /\ c.pc \in UpdateInFlight /\ c.next \in Nat \ {0}
    BY <1>2, <2>2 DEF UpdateInFlight
  <2>5. update[u].pc \in UpdateInFlight /\ db' = db /\ contended' = contended
    BY <2>1 DEF UpdateInFlight
  <2>6. /\ DOMAIN c = {"pc", "product", "dto", "existing", "next"}
        /\ c.pc \in {"done", "threw"} \cup UpdateInFlight /\ c.next \in Nat \ {0}
        /\ c.product = update[u].product /\ c.dto = update[u].dto
    BY <1>2, <2>4
  <2> HIDE DEF call
  <2> QED
    BY <2>3, <2>5, <2>6, ReadingStep
<1>4. CASE EndProperties(u)
  <2>1. /\ call.pc = "writingProperties"
        /\ update' = [update EXCEPT ![u].pc = "product", ![u].existing = {}]
        /\ UNCHANGED <<db, contended, renamed>>
    BY <1>4 DEF EndProperties
  <2>2. PICK c : c = [call EXCEPT !.pc = "product", !.existing = {}]
    OBVIOUS
  <2>3. update' = [update EXCEPT ![u] = c]
    BY <2>1, <2>2, <1>2 DEF AdminInv
  <2>4. /\ DOMAIN c = DOMAIN call /\ c.product = call.product /\ c.dto = call.dto
        /\ c.pc \in UpdateInFlight /\ c.next \in Nat \ {0}
    BY <1>2, <2>2 DEF UpdateInFlight
  <2>5. update[u].pc \in UpdateInFlight /\ db' = db /\ contended' = contended
    BY <2>1 DEF UpdateInFlight
  <2>6. /\ DOMAIN c = {"pc", "product", "dto", "existing", "next"}
        /\ c.pc \in {"done", "threw"} \cup UpdateInFlight /\ c.next \in Nat \ {0}
        /\ c.product = update[u].product /\ c.dto = update[u].dto
    BY <1>2, <2>4
  <2> HIDE DEF call
  <2> QED
    BY <2>3, <2>5, <2>6, ReadingStep
<1>5. CASE WriteProperty(u)
  <2> DEFINE p == ProductWith(call.product)
             property == call.dto.properties[call.next]
             stored == {x \in p.properties : x.key = property.key}
             new == [p EXCEPT !.properties = (@ \ stored) \cup {property}]
  <2>1. /\ call.pc = "writingProperties" /\ call.pc \in UpdateInFlight
        /\ call.next <= Len(call.dto.properties)
        /\ contended' = contended
        /\ \/ /\ update' = [update EXCEPT ![u].pc = "threw"]
              /\ db' = db
           \/ /\ db' = Changed(db, "bank_product", p, new)
              /\ update' = [update EXCEPT ![u].next = @ + 1]
    BY <1>5 DEF WriteProperty, UpdateInFlight
  <2>2. CASE update' = [update EXCEPT ![u].pc = "threw"] /\ db' = db
    <3>1. PICK c : c = [call EXCEPT !.pc = "threw"]
      OBVIOUS
    <3>2. update' = [update EXCEPT ![u] = c]
      BY <2>2, <3>1, <1>2 DEF AdminInv
    <3>3. /\ DOMAIN c = {"pc", "product", "dto", "existing", "next"}
          /\ c.pc \in {"done", "threw"} \cup UpdateInFlight /\ c.next \in Nat \ {0}
          /\ c.product = update[u].product /\ c.dto = update[u].dto
      BY <1>2, <3>1
    <3>4. update[u].pc \in UpdateInFlight /\ db' = db /\ contended' = contended
      BY <2>1, <2>2
    <3> HIDE DEF call
    <3> QED
      BY <3>2, <3>3, <3>4, ReadingStep
  <2>3. CASE db' = Changed(db, "bank_product", p, new) /\ update' = [update EXCEPT ![u].next = @ + 1]
    <3>1. property \in Property
      <4>1. call.dto.properties \in Seq(Property)
        BY <1>1, <2>1, ConfigurationAssumption DEF UpdateOK, TypedDto
      <4> HIDE DEF call
      <4> QED
        BY <1>2, <2>1, <4>1
    <3>2. p \in db.bank_product
      BY <1>1, <2>1, ProductFound
    <3>3. p \in BankProduct
      BY <3>2 DEF TableOK, Typed
    <3>4. /\ new \in BankProduct /\ new.properties \in Properties
          /\ new.id = p.id /\ \E b \in db.banks : b.code = new.bank
      <4>1. p.properties \in Properties /\ \E b \in db.banks : b.code = p.bank
        BY <3>2 DEF TableOK, Typed, Keyed, BankProduct, Properties
      <4> HIDE DEF property, p
      <4> QED
        BY <3>1, <3>3, <4>1 DEF BankProduct, Properties
    <3> HIDE DEF new, p
    <3>5. PICK next \in Nat \ {0} : next = call.next + 1
      BY <1>2
    <3>6. update' = [update EXCEPT ![u] = [update[u] EXCEPT !.pc = "writingProperties",
                                                            !.next = next]]
      BY <2>1, <2>3, <3>5, <1>2 DEF AdminInv
    <3>7. /\ UNCHANGED contended /\ update[u].pc \in UpdateInFlight
          /\ "writingProperties" \in {"done", "threw"} \cup UpdateInFlight
          /\ p = ProductWith(update[u].product)
      BY <2>1 DEF UpdateInFlight, p
    <3> HIDE DEF call
    <3> QED
      BY <2>3, <3>4, <3>6, <3>7, WritingStep
  <2> QED
    BY <2>1, <2>2, <2>3
<1> QED
  BY <1>3, <1>4, <1>5

(* What WriteProduct makes of a product is one again.                      *)
LEMMA ColumnsTyped ==
  ASSUME NEW dto \in ProductDtos
  PROVE  /\ \A code \in Codes : Given(dto.columns, "bank", code) \in Codes
         /\ \A name \in STRING : Given(dto.columns, "name", name) \in STRING
         /\ \A flag \in BOOLEAN : Given(dto.columns, "is_active", flag) \in BOOLEAN
         /\ {dto.api_url, dto.api_key, dto.api_secret} \subseteq Field
         /\ dto.configurations \in Seq(Rate) /\ dto.properties \in Seq(Property)
BY ConfigurationAssumption, FieldsTyped DEF TypedDto, Given

LEMMA WriteProductOK ==
  ASSUME TableOK(db), AdminInv, Up', NEW u \in Updates, WriteProduct(u)
  PROVE  TableOK(db)' /\ ProductsStay /\ AdminInv'
<1> DEFINE call == update[u]
           p == ProductWith(call.product)
           sent == call.dto.columns
           written == [p EXCEPT !.bank = Given(sent, "bank", @),
                                !.name = Given(sent, "name", @),
                                !.is_active = Given(sent, "is_active", @),
                                !.api_url = Merged(@, EncryptTruthy(call.dto.api_url)),
                                !.api_key = Merged(@, EncryptTruthy(call.dto.api_key)),
                                !.api_secret = Merged(@, EncryptTruthy(call.dto.api_secret))]
           banked == \E b \in db.banks : b.code = written.bank
           answers == banked /\ Decrypts(written.api_url) /\ Decrypts(written.api_key)
           pc == IF answers THEN "done" ELSE "threw"
<1>1. UpdateOK(call)
  BY DEF AdminInv
<1>2. /\ DOMAIN call = {"pc", "product", "dto", "existing", "next"}
      /\ call.next \in Nat \ {0}
  BY <1>1 DEF UpdateOK
<1>3. /\ call.pc = "product" /\ call.pc \in UpdateInFlight
      /\ db' = IF banked THEN Changed(db, "bank_product", p, written) ELSE db
      /\ update' = [update EXCEPT ![u].pc = pc]
      /\ UNCHANGED contended
  BY DEF WriteProduct, UpdateInFlight
<1>4. p \in BankProduct /\ p.properties \in Properties
  <2>1. p \in db.bank_product
    BY <1>1, <1>3, ProductFound
  <2> QED
    BY <2>1 DEF TableOK, Typed, Keyed, BankProduct, Properties
<1>5. written \in BankProduct /\ written.properties \in Properties /\ written.id = p.id
  <2> DEFINE dto == call.dto
  <2>1. dto \in ProductDtos
    BY <1>1, <1>3 DEF UpdateOK
  <2> HIDE DEF p, dto
  <2>2. /\ p.api_url \in Field /\ p.api_key \in Field /\ p.api_secret \in Field
        /\ p.bank \in Codes /\ p.name \in STRING /\ p.is_active \in BOOLEAN
    BY <1>4 DEF BankProduct
  <2>3. /\ Merged(p.api_url, EncryptTruthy(dto.api_url)) \in Field
        /\ Merged(p.api_key, EncryptTruthy(dto.api_key)) \in Field
        /\ Merged(p.api_secret, EncryptTruthy(dto.api_secret)) \in Field
    BY <2>1, <2>2, FieldsTyped, ColumnsTyped
  <2>4. /\ Given(dto.columns, "bank", p.bank) \in Codes
        /\ Given(dto.columns, "name", p.name) \in STRING
        /\ Given(dto.columns, "is_active", p.is_active) \in BOOLEAN
    BY <2>1, <2>2, ColumnsTyped
  <2> QED
    BY <1>4, <2>3, <2>4 DEF BankProduct, dto
<1>6. pc \in {"done", "threw"} \cup UpdateInFlight
  OBVIOUS
<1> HIDE DEF written, p, pc
<1>7. update' = [update EXCEPT ![u] = [call EXCEPT !.pc = pc, !.next = call.next]]
  BY <1>3, <1>2 DEF AdminInv
<1>8. contended' = contended /\ p = ProductWith(update[u].product)
  BY <1>3 DEF p
<1>9. CASE banked
  <2>1. PICK next \in Nat \ {0} : next = call.next
    BY <1>2
  <2>2. /\ db' = Changed(db, "bank_product", p, written)
        /\ \E b \in db.banks : b.code = written.bank
        /\ update' = [update EXCEPT ![u] = [update[u] EXCEPT !.pc = pc, !.next = next]]
        /\ update[u].pc \in UpdateInFlight
    BY <1>3, <1>7, <1>9, <2>1
  <2> HIDE DEF call, banked
  <2> QED
    BY <1>5, <1>6, <1>8, <2>2, WritingStep
<1>10. CASE ~ banked
  <2>1. PICK c : c = [call EXCEPT !.pc = pc, !.next = call.next]
    OBVIOUS
  <2>2. /\ DOMAIN c = {"pc", "product", "dto", "existing", "next"}
        /\ c.pc \in {"done", "threw"} \cup UpdateInFlight /\ c.next \in Nat \ {0}
        /\ c.product = update[u].product /\ c.dto = update[u].dto
    BY <1>2, <1>6, <2>1
  <2>3. db' = db /\ update' = [update EXCEPT ![u] = c] /\ update[u].pc \in UpdateInFlight
    BY <1>3, <1>7, <1>10, <2>1
  <2> QED
    BY <1>8, <2>2, <2>3, ReadingStep
<1> QED
  BY <1>9, <1>10

LEMMA UpdateStepOK ==
  ASSUME TableOK(db), AdminInv, Up', NEW u \in Updates, UpdateStep(u) \/ UpdateThrows(u)
  PROVE  TableOK(db)' /\ ProductsStay /\ AdminInv'
<1>1. CASE UpdateThrows(u)
  <2> DEFINE call == update[u]
  <2>1. UpdateOK(call)
    BY DEF AdminInv
  <2>2. /\ update[u].pc \in UpdateInFlight /\ db' = db /\ contended' = contended
        /\ update' = [update EXCEPT ![u].pc = "threw"]
    BY <1>1 DEF UpdateThrows
  <2>3. PICK c : c = [call EXCEPT !.pc = "threw"]
    OBVIOUS
  <2>4. update' = [update EXCEPT ![u] = c]
    BY <2>2, <2>3 DEF AdminInv
  <2>5. /\ DOMAIN c = {"pc", "product", "dto", "existing", "next"}
        /\ c.pc \in {"done", "threw"} \cup UpdateInFlight /\ c.next \in Nat \ {0}
        /\ c.product = update[u].product /\ c.dto = update[u].dto
    BY <2>1, <2>3 DEF UpdateOK
  <2> HIDE DEF call
  <2> QED
    BY <2>2, <2>4, <2>5, ReadingStep
<1> QED
  BY <1>1, ConfigurationStepOK, PropertyStepOK, WriteProductOK DEF UpdateStep
LEMMA AdminUntouched ==
  ASSUME AdminInv, ProductsStay, UNCHANGED adminVars, Up => Up'
  PROVE  AdminInv'
<1>1. ASSUME NEW u \in Updates PROVE UpdateOK(update[u])'
  <2>1. PICK c : c = update[u]
    OBVIOUS
  <2>2. UpdateOK(c)'
    BY <2>1, UpdateStays DEF AdminInv
  <2>3. update'[u] = c
    BY <2>1 DEF adminVars
  <2> QED
    BY <2>2, <2>3 DEF UpdateOK
<1> QED
  BY <1>1 DEF AdminInv, adminVars

LEMMA ManagerEditOK ==
  ASSUME TableOK(db), AdminInv, Up, Up', NetworkManagerEdit
  PROVE  TableOK(db)' /\ AdminInv'
<1> SUFFICES TableOK(db)' /\ ProductsStay
  BY AdminUntouched DEF NetworkManagerEdit
<1>1. ASSUME NEW dto \in ManagerDtos, CreateNetworkManager(dto)
      PROVE  TableOK(db)' /\ ProductsStay
  <2> DEFINE row == [name |-> dto.name, api_url |-> encrypt(dto.api_url),
                     api_key |-> encrypt(dto.api_key), api_secret |-> encrypt(dto.api_secret)]
  <2>1. dto \in [name : Names, api_url : Field, api_key : Field, api_secret : Field]
    BY ConfigurationAssumption
  <2>2. row \in NewManager
    BY <2>1, FieldsTyped DEF NewManager
  <2>3. /\ db' = Created(db, "network_manager", row)
        /\ \A m \in db.network_manager : m.name # row.name
    BY <1>1 DEF CreateNetworkManager
  <2> HIDE DEF row
  <2>4. LET after == Created(db, "network_manager", row)
        IN  TableOK(after) /\ \A t \in DOMAIN db \ {"network_manager"} : after[t] = db[t]
    BY <2>2, <2>3, ManagerCreated
  <2>5. TableOK(db') /\ \A t \in DOMAIN db \ {"network_manager"} : db'[t] = db[t]
    BY <2>3, <2>4
  <2>6. db'.bank_product = db.bank_product
    BY <2>5 DEF TableOK, Typed, EmptyDb
  <2> QED
    BY <2>5, <2>6 DEF TableOK, Typed, Keyed, ProductsStay
<1>2. ASSUME NEW m \in db.network_manager, NEW dto \in ManagerDtos, UpdateNetworkManager(m, dto)
      PROVE  TableOK(db)' /\ ProductsStay
  <2> DEFINE new == NetworkManagerUpdated(m, dto)
  <2>1. dto \in [name : Names, api_url : Field, api_key : Field, api_secret : Field]
    BY ConfigurationAssumption
  <2>2. m \in NetworkManager
    BY DEF TableOK, Typed
  <2>3. /\ Merged(m.api_url, dto.api_url) \in Field
        /\ Merged(m.api_key, EncryptTruthy(dto.api_key)) \in Field
        /\ Merged(m.api_secret, EncryptTruthy(dto.api_secret)) \in Field
    BY <2>1, <2>2, FieldsTyped DEF NetworkManager
  <2>4. /\ new \in NetworkManager /\ new.id = m.id
        /\ new.name = IF dto.name = "" THEN m.name ELSE dto.name
    <3> DEFINE name == IF dto.name = "" THEN m.name ELSE dto.name
               url == Merged(m.api_url, dto.api_url)
               key == Merged(m.api_key, EncryptTruthy(dto.api_key))
               secret == Merged(m.api_secret, EncryptTruthy(dto.api_secret))
    <3>1. new = [m EXCEPT !.name = name, !.api_url = url, !.api_key = key, !.api_secret = secret]
      BY <2>2 DEF NetworkManagerUpdated, NetworkManager
    <3>2. name \in Names
      BY <2>1, <2>2 DEF NetworkManager
    <3> HIDE DEF new, url, key, secret, name
    <3>3. new \in NetworkManager /\ new.id = m.id /\ new.name = name
      BY <2>2, <2>3, <3>1, <3>2 DEF NetworkManager, url, key, secret
    <3> QED
      BY <3>3 DEF name
  <2>5. /\ db' = Changed(db, "network_manager", m, new)
        /\ \A n \in db.network_manager : n.name = dto.name => n = m
    BY <1>2 DEF UpdateNetworkManager
  <2>6. \A n \in db.network_manager : n.name = new.name => n = m
    <3>1. \A n \in db.network_manager : n.name = m.name => n = m
      BY DEF TableOK, Keyed
    <3> HIDE DEF new
    <3> QED
      BY <2>4, <2>5, <3>1
  <2> HIDE DEF new
  <2>7. LET after == Changed(db, "network_manager", m, new)
        IN  TableOK(after) /\ \A t \in DOMAIN db \ {"network_manager"} : after[t] = db[t]
    <3>1. new \in NetworkManager /\ new.id = m.id
      BY <2>4
    <3> QED
      BY <2>6, <3>1, ManagerChanged
  <2>8. TableOK(db') /\ \A t \in DOMAIN db \ {"network_manager"} : db'[t] = db[t]
    BY <2>5, <2>7
  <2>9. db'.bank_product = db.bank_product
    BY <2>8 DEF TableOK, Typed, EmptyDb
  <2> QED
    BY <2>8, <2>9 DEF TableOK, Typed, Keyed, ProductsStay
<1>3. ASSUME NEW m \in db.network_manager, RemoveNetworkManager(m)
      PROVE  TableOK(db)' /\ ProductsStay
  <2>1. TableOK(db)' /\ \A t \in DOMAIN db \ {"network_manager", "isp"} : db'[t] = db[t]
    BY <1>3, ManagerRemoved
  <2>2. db'.bank_product = db.bank_product
    BY <2>1 DEF TableOK, Typed, EmptyDb
  <2> QED
    BY <2>1, <2>2 DEF ProductsStay
<1> QED
  BY <1>1, <1>2, <1>3 DEF NetworkManagerEdit

LEMMA IspConfigurationEditOK ==
  ASSUME TableOK(db), AdminInv, Up, Up', IspConfigurationEdit
  PROVE  TableOK(db)' /\ AdminInv'
<1> SUFFICES TableOK(db)' /\ ProductsStay
  BY AdminUntouched DEF IspConfigurationEdit
<1>1. \A i \in db.isp : i.id \in Names \X Nat
  BY DEF TableOK, Typed, Isp
<1>2. ASSUME NEW i \in db.isp, NEW token \in Tokens, CreateIspConfiguration(i.id, token)
      PROVE  TableOK(db)' /\ ProductsStay
  <2> DEFINE row == [isp_id |-> i.id, instance_token |-> token]
  <2>1. row \in NewIspConfiguration
    BY <1>1, ConfigurationAssumption DEF NewIspConfiguration
  <2>2. /\ db' = Created(db, "isp_configuration", row)
        /\ row.isp_id = i.id
    BY <1>2 DEF CreateIspConfiguration
  <2> HIDE DEF row
  <2>3. LET after == Created(db, "isp_configuration", row)
        IN  TableOK(after) /\ \A t \in DOMAIN db \ {"isp_configuration"} : after[t] = db[t]
    BY <2>1, <2>2, IspConfigurationCreated
  <2>4. TableOK(db') /\ \A t \in DOMAIN db \ {"isp_configuration"} : db'[t] = db[t]
    BY <2>2, <2>3
  <2>5. db'.bank_product = db.bank_product
    BY <2>4 DEF TableOK, Typed, EmptyDb
  <2> QED
    BY <2>4, <2>5 DEF TableOK, Typed, Keyed, ProductsStay
<1>3. ASSUME NEW c \in db.isp_configuration, NEW i \in db.isp, NEW token \in Tokens,
             UpdateIspConfiguration(c, i.id, token)
      PROVE  TableOK(db)' /\ ProductsStay
  <2> DEFINE new == [c EXCEPT !.isp_id = i.id, !.instance_token = Merged(@, token)]
  <2>1. c \in IspConfiguration
    BY DEF TableOK, Typed
  <2>2. Merged(c.instance_token, token) \in Field
    BY <2>1, ConfigurationAssumption, FieldsTyped DEF IspConfiguration
  <2>3. new \in IspConfiguration /\ new.isp_id = i.id
    BY <1>1, <2>1, <2>2 DEF IspConfiguration
  <2>4. db' = Changed(db, "isp_configuration", c, new)
    BY <1>3 DEF UpdateIspConfiguration
  <2> HIDE DEF new
  <2>5. LET after == Changed(db, "isp_configuration", c, new)
        IN  TableOK(after) /\ \A t \in DOMAIN db \ {"isp_configuration"} : after[t] = db[t]
    BY <2>3, IspConfigurationChanged
  <2>6. TableOK(db') /\ \A t \in DOMAIN db \ {"isp_configuration"} : db'[t] = db[t]
    BY <2>4, <2>5
  <2>7. db'.bank_product = db.bank_product
    BY <2>6 DEF TableOK, Typed, EmptyDb
  <2> QED
    BY <2>6, <2>7 DEF TableOK, Typed, Keyed, ProductsStay
<1>4. ASSUME NEW c \in db.isp_configuration, RemoveIspConfiguration(c)
      PROVE  TableOK(db)' /\ ProductsStay
  <2>1. /\ DOMAIN db' = DOMAIN EmptyDb
        /\ db'.isp_configuration = db.isp_configuration \ {c}
        /\ db'.banks = db.banks /\ db'.bank_product = db.bank_product
        /\ db'.network_manager = db.network_manager /\ db'.isp = db.isp
    BY <1>4 DEF RemoveIspConfiguration, TableOK, Typed, EmptyDb
  <2>2. IsFiniteSet(db'.isp_configuration)
    BY <2>1, FS_RemoveElement DEF TableOK, Typed, Numbered
  <2>3. Typed(db)'
    BY <2>1, <2>2 DEF TableOK, Typed, Numbered
  <2>4. Keyed(db)'
    BY <2>1 DEF TableOK, Keyed
  <2> QED
    BY <2>1, <2>3, <2>4 DEF TableOK, ProductsStay
<1> QED
  BY <1>2, <1>3, <1>4 DEF IspConfigurationEdit

LEMMA BankProductEditOK ==
  ASSUME TableOK(db), AdminInv, Up, Up', BankProductEdit
  PROVE  TableOK(db)' /\ AdminInv'
<1>1. ASSUME NEW dto \in ProductDtos, CreateProduct(dto)
      PROVE  TableOK(db)' /\ AdminInv'
  <2> DEFINE row == [bank |-> dto.columns["bank"], name |-> dto.columns["name"],
                     is_active |-> Given(dto.columns, "is_active", FALSE),
                     api_url |-> encrypt(dto.api_url), api_key |-> encrypt(dto.api_key),
                     api_secret |-> encrypt(dto.api_secret),
                     configurations |-> dto.configurations,
                     properties |-> {dto.properties[i] : i \in DOMAIN dto.properties}]
  <2>1. /\ dto.columns["bank"] \in Codes /\ dto.columns["name"] \in STRING
        /\ Given(dto.columns, "is_active", FALSE) \in BOOLEAN
        /\ {dto.api_url, dto.api_key, dto.api_secret} \subseteq Field
        /\ dto.configurations \in Seq(Rate) /\ dto.properties \in Seq(Property)
    BY <1>1, ColumnsTyped, ConfigurationAssumption DEF CreateProduct, TypedDto
  <2>2. {dto.properties[i] : i \in DOMAIN dto.properties} \in Properties
    BY <1>1, <2>1 DEF CreateProduct, Properties
  <2>3. /\ encrypt(dto.api_url) \in Field /\ encrypt(dto.api_key) \in Field
        /\ encrypt(dto.api_secret) \in Field
    BY <2>1, FieldsTyped
  <2>4. row \in NewProduct
    BY <2>1, <2>2, <2>3 DEF NewProduct
  <2>5. /\ db' = Created(db, "bank_product", row)
        /\ \E b \in db.banks : b.code = row.bank
        /\ UNCHANGED adminVars
    BY <1>1 DEF CreateProduct
  <2> HIDE DEF row
  <2> DEFINE added == WithId(NewId(db.bank_product, <<row.bank, row.name>>), row)
  <2>6. LET after == Created(db, "bank_product", row)
        IN  TableOK(after) /\ after.bank_product = db.bank_product \cup {added}
    BY <2>4, <2>5, ProductCreated
  <2> HIDE DEF added
  <2>7. TableOK(db') /\ db'.bank_product = db.bank_product \cup {added}
    BY <2>5, <2>6
  <2>8. TableOK(db)' /\ ProductsStay
    BY <2>7 DEF TableOK, Typed, Keyed, ProductsStay
  <2> QED
    BY <2>5, <2>8, AdminUntouched
<1>2. ASSUME NEW u \in Updates, NEW p \in db.bank_product, NEW dto \in ProductDtos,
             StartUpdate(u, p.id, dto)
      PROVE  TableOK(db)' /\ AdminInv'
  BY <1>2, StartUpdateOK
<1> QED
  BY <1>1, <1>2 DEF BankProductEdit
-----------------------------------------------------------------------------
(***************************************************************************)
(* The invariant of the whole.  What start-up has left to insert must fit  *)
(* the tables (TodoOK), an update must hold the id of a product that is    *)
(* there (AdminInv), and what there was to read must have been fields, or  *)
(* the types and keys would not survive the next step.                     *)
(***************************************************************************)
BootInv ==
    /\ boot.pc \in {"down", "reading", "writing", "up"}
    /\ boot.service \in DOMAIN Services
    /\ boot.pc = "writing" => TodoOK(boot.todo)
    /\ deaths \in 0..MaxDeaths /\ edits \in 0..MaxDisturbances
    /\ cutOff \subseteq {Services[i] : i \in DOMAIN Services}

SeenInv == \A c \in Clients : seen[c] \subseteq [apiUrl : Field, apiKey : Field]

RenamedInv == renamed \subseteq Codes \X STRING /\ (~Up => renamed = {})

ConfigInv == KeptInv /\ TableOK(db) /\ AdminInv /\ BootInv /\ SeenInv /\ RenamedInv

LEMMA ConfiguredTyped ==
  ASSUME TableOK(db), NEW c \in Clients
  PROVE  Configured(c) \subseteq [apiUrl : Field, apiKey : Field]
<1>1. ASSUME NEW p \in db.bank_product
      PROVE  [apiUrl |-> decrypt(p.api_url), apiKey |-> decrypt(p.api_key)]
                \in [apiUrl : Field, apiKey : Field]
  <2>1. p \in BankProduct
    BY DEF TableOK, Typed
  <2>2. p.api_url \in Field /\ p.api_key \in Field
    BY <2>1 DEF BankProduct
  <2> QED
    BY <2>2, FieldsTyped
<1>2. ASSUME NEW m \in db.network_manager
      PROVE  NetworkManagerConfig(m) \in [apiUrl : Field, apiKey : Field]
  <2>1. m \in NetworkManager
    BY DEF TableOK, Typed
  <2>2. m.api_url \in Field /\ m.api_key \in Field
    BY <2>1 DEF NetworkManager
  <2> QED
    BY <2>2, FieldsTyped DEF NetworkManagerConfig
<1> QED
  BY <1>1, <1>2 DEF Configured

LEMMA InitConfig == Init => ConfigInv
<1> SUFFICES ASSUME Init PROVE ConfigInv
    OBVIOUS
<1>1. KeptInv
  BY InitKept
<1>2. TableOK(db)
  BY ConfigurationAssumption DEF Init, TableOK
<1>3. AdminInv /\ RenamedInv
  <2>1. update = [u \in Updates |-> IdleUpdate] /\ contended = {} /\ renamed = {}
    BY DEF Init, InitAdmin
  <2>2. UpdateOK(IdleUpdate) /\ IdleUpdate.pc \notin UpdateInFlight
    BY DEF IdleUpdate, UpdateOK, UpdateInFlight
  <2> QED
    BY <2>1, <2>2 DEF AdminInv, RenamedInv
<1>4. BootInv
  <2>1. boot.pc = "down" /\ boot.service = 1 /\ deaths = 0 /\ cutOff = {} /\ edits = 0
    BY DEF Init, InitBoot, Down
  <2> QED
    BY <2>1, InitializationAssumption, ConfigurationAssumption DEF BootInv, Services
<1>5. SeenInv
  BY DEF Init, SeenInv
<1> QED
  BY <1>1, <1>2, <1>3, <1>4, <1>5 DEF ConfigInv

(* Start-up goes on.                                                       *)
LEMMA BootStepOK ==
  ASSUME TableOK(db), AdminInv, BootInv, StartProcess \/ BootStep,
         UNCHANGED <<update, contended, renamed, kept, calls, edits>>
  PROVE  TableOK(db)' /\ AdminInv' /\ BootInv'
<1>1. ~Up
  BY DEF StartProcess, BootStep, ReadTables, WriteRow, Up, Down
<1>2. CASE StartProcess
  <2>1. boot'.pc = "reading" /\ boot'.service = 1 /\ UNCHANGED <<db, deaths, cutOff>>
    BY <1>2 DEF StartProcess, Down
  <2>2. ProductsStay /\ TableOK(db)'
    BY <2>1 DEF ProductsStay, TableOK, Typed, Keyed
  <2>3. AdminInv'
    BY <1>1, <2>2, AdminUntouched DEF adminVars
  <2>4. BootInv'
    BY <2>1 DEF BootInv, Services
  <2> QED
    BY <2>2, <2>3, <2>4
<1>3. CASE ReadTables
  <2> DEFINE todo == Plan(Services[boot.service])
  <2>1. boot.service \in DOMAIN Services /\ boot' = Onward(boot.service, todo)
        /\ UNCHANGED <<db, deaths, cutOff>>
    BY <1>3 DEF ReadTables, BootInv
  <2>2. PICK t : t = todo
    OBVIOUS
  <2>3. TodoOK(t)
    BY <2>1, <2>2, PlanOK
  <2> HIDE DEF todo
  <2>4. TodoOK(t)'
    BY <2>1, <2>3 DEF TodoOK, Sound, NameFree, IspComes
  <2>5. /\ boot'.pc \in {"reading", "writing", "up"} /\ boot'.service \in DOMAIN Services
        /\ boot'.pc = "writing" => boot'.todo = t
    BY <2>1, <2>2 DEF Onward, Services
  <2>6. boot'.pc = "writing" => TodoOK(boot.todo)'
    BY <2>4, <2>5 DEF TodoOK
  <2>7. ProductsStay /\ TableOK(db)'
    BY <2>1 DEF ProductsStay, TableOK, Typed, Keyed
  <2>8. AdminInv'
    BY <1>1, <2>7, AdminUntouched DEF adminVars
  <2> QED
    BY <2>1, <2>5, <2>6, <2>7, <2>8 DEF BootInv
<1>4. CASE WriteRow
  <2>1. boot.pc = "writing" /\ UNCHANGED <<deaths, cutOff>>
    BY <1>4 DEF WriteRow
  <2>2. /\ TableOK(db)' /\ Grows
        /\ boot'.pc \in {"reading", "writing", "up"} /\ boot'.service \in DOMAIN Services
        /\ boot'.pc = "writing" => TodoOK(boot.todo)'
    BY <1>4, <2>1, RowWritten DEF BootInv
  <2>3. db.bank_product \subseteq db'.bank_product
    BY <2>2 DEF Grows, TableOK, Typed, EmptyDb
  <2>4. ProductsStay
    BY <2>3 DEF ProductsStay
  <2>5. AdminInv'
    BY <1>1, <2>4, AdminUntouched DEF adminVars
  <2> QED
    BY <2>1, <2>2, <2>5 DEF BootInv
<1> QED
  BY <1>2, <1>3, <1>4 DEF BootStep

LEMMA DieOK ==
  ASSUME TableOK(db), AdminInv, BootInv, DieWithMemory
  PROVE  TableOK(db)' /\ AdminInv' /\ BootInv'
<1>1. /\ db' = db /\ contended' = contended /\ edits' = edits
      /\ boot' = Down /\ deaths < MaxDeaths /\ deaths' = deaths + 1
      /\ cutOff' = IF boot.pc = "writing" THEN cutOff \cup {Services[boot.service]} ELSE cutOff
      /\ update' = [u \in Updates |-> IF update[u].pc \in UpdateInFlight
                                      THEN [update[u] EXCEPT !.pc = "cut"] ELSE update[u]]
  BY DEF DieWithMemory, Die, CutUpdates
<1>2. TableOK(db)'
  BY <1>1 DEF TableOK, Typed, Keyed
<1>3. BootInv'
  <2>1. boot'.pc = "down" /\ boot'.service = 1
    BY <1>1 DEF Down
  <2>2. cutOff' \subseteq {Services[i] : i \in DOMAIN Services}
    BY <1>1 DEF BootInv
  <2>3. deaths' \in 0..MaxDeaths
    BY <1>1, InitializationAssumption DEF BootInv
  <2> QED
    BY <1>1, <2>1, <2>2, <2>3 DEF BootInv, Services
<1>4. AdminInv'
  <2>1. ASSUME NEW u \in Updates
        PROVE  UpdateOK(update[u])' /\ update'[u].pc \notin UpdateInFlight
    <3>1. UpdateOK(update[u])
      BY DEF AdminInv
    <3>2. CASE update[u].pc \in UpdateInFlight
      <4>1. update'[u] = [update[u] EXCEPT !.pc = "cut"]
        BY <1>1, <3>2
      <4> QED
        BY <1>1, <3>1, <4>1 DEF UpdateOK, UpdateInFlight
    <3>3. CASE update[u].pc \notin UpdateInFlight
      <4>1. update'[u] = update[u]
        BY <1>1, <3>3
      <4> QED
        BY <1>1, <3>1, <3>3, <4>1 DEF UpdateOK
    <3> QED
      BY <3>2, <3>3
  <2> QED
    BY <1>1, <2>1 DEF AdminInv
<1> QED
  BY <1>2, <1>3, <1>4

(* The same as a formula, and of the next state.                          *)
ConfiguredOK == \A c \in Clients : Configured(c) \subseteq [apiUrl : Field, apiKey : Field]

LEMMA ConfiguredSound == TableOK(db) => ConfiguredOK
BY ConfiguredTyped DEF ConfiguredOK

LEMMA ConfiguredNext == TableOK(db)' => ConfiguredOK'
BY ConfiguredSound, PTL

(* Only an update takes a name from a product; a restart forgets it.       *)
LEMMA RenamedStep ==
  ASSUME TableOK(db), AdminInv, RenamedInv, [Next]_vars
  PROVE  RenamedInv'
<1>1. CASE DieWithMemory
  BY <1>1 DEF DieWithMemory, RenamedInv
<1>2. ASSUME UNCHANGED renamed, Up => Up' PROVE RenamedInv'
  BY <1>2 DEF RenamedInv
<1>3. CASE UNCHANGED vars
  BY <1>2, <1>3 DEF vars, Up
<1>4. CASE Running
  <2>1. CASE (StartProcess \/ BootStep) /\ UNCHANGED <<update, contended, renamed, kept, calls, edits>>
    <3>1. ~Up
      BY <2>1 DEF StartProcess, BootStep, ReadTables, WriteRow, Up, Down
    <3> QED
      BY <1>2, <2>1, <3>1
  <2>2. CASE Up /\ CallStep /\ UNCHANGED <<bootVars, update, contended, renamed, edits>>
    BY <1>2, <2>2 DEF bootVars, Up
  <2>3. CASE Edit /\ UNCHANGED <<boot, deaths, cutOff, kept, calls>>
    <3>1. UNCHANGED renamed
      BY <2>3 DEF Edit, NetworkManagerEdit, IspConfigurationEdit, BankProductEdit, CreateProduct,
                  StartUpdate, adminVars
    <3> QED
      BY <1>2, <2>3, <3>1 DEF Up
  <2>4. ASSUME NEW u \in Updates, UpdateStep(u) \/ UpdateThrows(u), UNCHANGED boot
        PROVE  RenamedInv'
    <3>1. update[u].pc \in UpdateInFlight
      BY <2>4 DEF UpdateStep, UpdateThrows, ReadConfigurations, WriteConfiguration,
                  EndConfigurations, ReadProperties, WriteProperty, EndProperties,
                  WriteProduct, UpdateInFlight
    <3>2. Up /\ Up' /\ UpdateOK(update[u])
      BY <2>4, <3>1 DEF AdminInv, Up
    <3>3. CASE WriteProduct(u)
      <4> DEFINE p == ProductWith(update[u].product)
      <4>1. p \in db.bank_product
        BY <3>1, <3>2, ProductFound
      <4>2. p.bank \in Codes /\ p.name \in STRING
        BY <4>1 DEF TableOK, Typed, BankProduct
      <4>3. renamed' = renamed \/ renamed' = renamed \cup {<<p.bank, p.name>>}
        BY <3>3 DEF WriteProduct
      <4> HIDE DEF p
      <4> QED
        BY <3>2, <4>2, <4>3 DEF RenamedInv
    <3>4. CASE ~ WriteProduct(u)
      <4>1. UNCHANGED renamed
        BY <2>4, <3>4 DEF UpdateStep, UpdateThrows, ReadConfigurations, WriteConfiguration,
                    EndConfigurations, ReadProperties, WriteProperty, EndProperties
      <4> QED
        BY <1>2, <3>2, <4>1
    <3> QED
      BY <3>3, <3>4
  <2> QED
    BY <1>4, <2>1, <2>2, <2>3, <2>4 DEF Running
<1> QED
  BY <1>1, <1>3, <1>4 DEF Next

LEMMA ConfigStep == ConfigInv /\ [Next]_vars => ConfigInv'
<1> SUFFICES ASSUME ConfigInv, [Next]_vars PROVE ConfigInv'
    OBVIOUS
<1> USE DEF ConfigInv
<1>1. KeptInv'
  BY KeptStep
<1>2. TableOK(db)' /\ AdminInv' /\ BootInv'
  <2>1. CASE Running
    <3>1. CASE (StartProcess \/ BootStep) /\ UNCHANGED <<update, contended, renamed, kept, calls, edits>>
      BY <3>1, BootStepOK
    <3>2. CASE Up /\ CallStep /\ UNCHANGED <<bootVars, update, contended, renamed, edits>>
      <4>1. ProductsStay /\ TableOK(db)'
        BY <3>2 DEF bootVars, ProductsStay, TableOK, Typed, Keyed
      <4>2. AdminInv'
        BY <3>2, <4>1, AdminUntouched DEF adminVars, bootVars, Up
      <4>3. BootInv'
        BY <3>2 DEF bootVars, BootInv, Up
      <4> QED
        BY <4>1, <4>2, <4>3
    <3>3. CASE /\ Up /\ Edit
               /\ edits + deaths < MaxDisturbances /\ edits' = edits + 1
               /\ UNCHANGED <<boot, deaths, cutOff, kept, calls>>
      <4>1. Up'
        BY <3>3 DEF Up
      <4>2. TableOK(db)' /\ AdminInv'
        BY <3>3, <4>1, ManagerEditOK, IspConfigurationEditOK, BankProductEditOK DEF Edit
      <4>3. edits' \in 0..MaxDisturbances
        BY <3>3, ConfigurationAssumption, InitializationAssumption DEF BootInv
      <4> QED
        BY <3>3, <4>2, <4>3 DEF BootInv, Up
    <3>4. CASE /\ \E u \in Updates : UpdateStep(u) \/ UpdateThrows(u)
               /\ UNCHANGED <<boot, deaths, cutOff, kept, calls, edits>>
      <4>1. PICK u \in Updates : UpdateStep(u) \/ UpdateThrows(u)
        BY <3>4
      <4>2. update[u].pc \in UpdateInFlight
        BY <4>1 DEF UpdateStep, UpdateThrows, ReadConfigurations, WriteConfiguration,
                    EndConfigurations, ReadProperties, WriteProperty, EndProperties,
                    WriteProduct, UpdateInFlight
      <4>3. Up /\ Up'
        BY <3>4, <4>2 DEF AdminInv, Up
      <4>4. TableOK(db)' /\ AdminInv'
        BY <4>1, <4>3, UpdateStepOK
      <4> QED
        BY <3>4, <4>3, <4>4 DEF BootInv, Up
    <3> QED
      BY <2>1, <3>1, <3>2, <3>3, <3>4 DEF Running
  <2>2. CASE DieWithMemory
    BY <2>2, DieOK
  <2>3. CASE UNCHANGED vars
    <3>1. ProductsStay /\ TableOK(db)'
      BY <2>3 DEF vars, ProductsStay, TableOK, Typed, Keyed
    <3>2. AdminInv'
      BY <2>3, <3>1, AdminUntouched DEF adminVars, vars, Up
    <3>3. boot.pc = "writing" => TodoOK(boot.todo)'
      BY <2>3 DEF vars, BootInv, TodoOK, Sound, NameFree, IspComes
    <3>4. BootInv'
      BY <2>3, <3>3 DEF vars, BootInv
    <3> QED
      BY <3>1, <3>2, <3>4
  <2> QED
    BY <2>1, <2>2, <2>3 DEF Next
<1>3. SeenInv'
  <2>1. CASE seen' = [c \in Clients |-> seen[c] \cup Configured(c)']
    <3>1. ASSUME NEW c \in Clients PROVE Configured(c)' \subseteq [apiUrl : Field, apiKey : Field]
      BY <1>2, ConfiguredNext DEF ConfiguredOK
    <3> QED
      BY <2>1, <3>1 DEF SeenInv
  <2>2. CASE DieWithMemory \/ UNCHANGED vars
    BY <2>2 DEF DieWithMemory, vars, SeenInv
  <2> QED
    BY <2>1, <2>2 DEF Next
<1>4. RenamedInv'
  BY RenamedStep
<1> QED
  BY <1>1, <1>2, <1>3, <1>4

THEOREM ConfigurationInvariant == Spec => []ConfigInv
BY InitConfig, ConfigStep, PTL DEF Spec
(* The tables keep their types and keys, and the state of start-up, of the *)
(* updates and of the services theirs: no product is without its bank, no  *)
(* configuration without its ISP, no two managers have one name, whatever  *)
(* order the inserts land in and wherever start-up is cut off.             *)
THEOREM ConfigurationTypeCorrect == Spec => []ConfigurationTypeOK
<1>1. ConfigInv => ConfigurationTypeOK
  <2> SUFFICES ASSUME ConfigInv PROVE ConfigurationTypeOK
      OBVIOUS
  <2>1. Typed(db) /\ Keyed(db)
    BY DEF ConfigInv, TableOK
  <2>2. AdminTypeOK
    BY DEF ConfigInv, AdminInv, UpdateOK, RenamedInv, AdminTypeOK
  <2>3. ASSUME NEW c \in Clients PROVE {kept[c].apiUrl, kept[c].apiKey} \subseteq Field
    <3>1. CASE kept[c] = None
      BY <3>1, FieldsTyped DEF None
    <3>2. CASE kept[c] # None
      <4>1. kept[c] \in [apiUrl : Field, apiKey : Field]
        BY <3>2 DEF ConfigInv, KeptInv, KeptWasConfigured, SeenInv
      <4> QED
        BY <4>1
    <3> QED
      BY <3>1, <3>2
  <2> QED
    BY <2>1, <2>2, <2>3 DEF ConfigInv, BootInv, ConfigurationTypeOK
<1> QED
  BY ConfigurationInvariant, <1>1, PTL

(* One step of start-up, and of a process that is down.                    *)
Restart ==
    ~Up =>
        /\ \A table \in DOMAIN db \ {"banks"} : db[table] \subseteq db'[table]
        /\ {b.code : b \in db.banks} \subseteq {b.code : b \in db.banks'}
        /\ \A p \in db.bank_product' \ db.bank_product, q \in db.bank_product :
              ~ (p.bank = q.bank /\ p.name = q.name)

LEMMA RestartStep == ConfigInv /\ [Next]_vars => Restart
<1> SUFFICES ASSUME ConfigInv, [Next]_vars, ~Up PROVE Restart
    BY DEF Restart
<1>1. CASE db' = db
  BY <1>1 DEF Restart
<1>2. CASE WriteRow
  <2>1. TodoOK(boot.todo) /\ boot.pc = "writing" /\ boot.service \in DOMAIN Services /\ TableOK(db)
    BY <1>2 DEF WriteRow, ConfigInv, BootInv
  <2>2. /\ Grows
        /\ \A p \in db.bank_product' \ db.bank_product, q \in db.bank_product :
              ~ (p.bank = q.bank /\ p.name = q.name)
    BY <1>2, <2>1, RowWritten
  <2> QED
    BY <2>2 DEF Grows, Restart
<1>3. ASSUME NEW u \in Updates PROVE ~ (UpdateStep(u) \/ UpdateThrows(u))
  <2>1. update[u].pc \notin UpdateInFlight
    BY DEF ConfigInv, AdminInv
  <2> QED
    BY <2>1 DEF UpdateStep, UpdateThrows, ReadConfigurations, WriteConfiguration,
                EndConfigurations, ReadProperties, WriteProperty, EndProperties,
                WriteProduct, UpdateInFlight
<1>4. CASE StartProcess \/ ReadTables \/ DieWithMemory \/ UNCHANGED vars
  <2>1. db' = db
    BY <1>4 DEF StartProcess, ReadTables, DieWithMemory, Die, vars
  <2> QED
    BY <1>1, <2>1
<1> QED
  BY <1>2, <1>3, <1>4 DEF Next, Running, BootStep

(* A start takes nothing back that was configured and gives no bank a      *)
(* product it has by that name, whatever a death has left half inserted    *)
(* and in whatever order the inserts of one Promise.all land.              *)
THEOREM RestartKeeps == Spec => RestartKeepsSettings
<1>1. ConfigInv /\ [Next]_vars => [Restart]_vars
  BY RestartStep
<1>2. ConfigInv /\ [Next]_vars =>
        [ ~Up =>
            /\ \A table \in DOMAIN db \ {"banks"} : db[table] \subseteq db'[table]
            /\ {b.code : b \in db.banks} \subseteq {b.code : b \in db.banks'}
            /\ \A p \in db.bank_product' \ db.bank_product, q \in db.bank_product :
                  ~ (p.bank = q.bank /\ p.name = q.name) ]_vars
  BY <1>1 DEF Restart
<1> QED
  BY ConfigurationInvariant, <1>2, PTL DEF Spec, RestartKeepsSettings

-----------------------------------------------------------------------------
(***************************************************************************)
(* Updates take effect.  What an update alone with its product has written *)
(* stays until it answers: two under way with one product are contended    *)
(* (Rivals), and no operation but an update writes to a product.  While it *)
(* goes through the configurations, the rows it has read are where they    *)
(* were, and the others are its own.                                       *)
(***************************************************************************)
Rivals ==
    \A u, v \in Updates :
       /\ u # v /\ update[u].product = update[v].product
       /\ update[u].pc \in UpdateInFlight /\ update[v].pc \in UpdateInFlight
       => u \in contended

RowsKnown(rows, existing, named) ==
    /\ \A e \in existing : e[2] \in DOMAIN rows /\ rows[e[2]].currency = e[1]
    /\ \A row \in DOMAIN rows : \/ \E e \in existing : e[1] = rows[row].currency
                                \/ \E j \in DOMAIN named : named[j].currency = rows[row].currency

EffectOn(call, p) ==
    LET dto == call.dto
    IN  /\ call.pc = "writingConfigurations" =>
              /\ call.next - 1 <= Len(dto.configurations)
              /\ RowsKnown(p.configurations, call.existing,
                           [j \in 1..(call.next - 1) |-> dto.configurations[j]])
              /\ HasConfigurations(p, dto.configurations, call.next - 1)
        /\ call.pc \in {"properties", "writingProperties", "product"} =>
              HasConfigurations(p, dto.configurations, Len(dto.configurations))
        /\ call.pc = "writingProperties" =>
              /\ call.next - 1 <= Len(dto.properties)
              /\ HasProperties(p, dto.properties, call.next - 1)
        /\ call.pc = "product" => HasProperties(p, dto.properties, Len(dto.properties))

EffectInv == Rivals /\ \A u \in Updates \ contended : EffectOn(update[u], ProductOf(u))

(* A product is the one with its id.                                       *)
LEMMA ProductNext ==
  ASSUME TableOK(db)', NEW p \in db'.bank_product, NEW id, p.id = id
  PROVE  ProductWith(id)' = p
BY DEF ProductWith, TableOK, Keyed

LEMMA LastingNext ==
  ASSUME NEW seq, NEW n \in Nat, NEW i \in Lasting(seq, n + 1)
  PROVE  i = n + 1 \/ (i \in Lasting(seq, n) /\ seq[n + 1] # seq[i])
BY DEF Lasting

LEMMA LastingNone ==
  ASSUME NEW seq PROVE Lasting(seq, 0) = {}
BY DEF Lasting

(* The next configuration written, over a row of its currency or none.     *)
LEMMA OneMoreConfiguration ==
  ASSUME NEW p, NEW q, NEW list, NEW n \in Nat, n + 1 \in DOMAIN list,
         1..(n + 1) \subseteq DOMAIN list,
         HasConfigurations(p, list, n),
         \E row \in DOMAIN q.configurations : q.configurations[row] = list[n + 1],
         \A row \in DOMAIN p.configurations :
            p.configurations[row].currency # list[n + 1].currency =>
               row \in DOMAIN q.configurations /\ q.configurations[row] = p.configurations[row]
  PROVE  HasConfigurations(q, list, n + 1)
<1> SUFFICES ASSUME NEW i \in Lasting(Currencies(list), n + 1)
             PROVE  \E row \in DOMAIN q.configurations : q.configurations[row] = list[i]
    BY DEF HasConfigurations
<1>1. CASE i = n + 1
  BY <1>1
<1>2. CASE i \in Lasting(Currencies(list), n) /\ Currencies(list)[n + 1] # Currencies(list)[i]
  <2>1. i \in DOMAIN list /\ list[i].currency # list[n + 1].currency
    BY <1>2 DEF Lasting, Currencies
  <2>2. PICK row \in DOMAIN p.configurations : p.configurations[row] = list[i]
    BY <1>2 DEF HasConfigurations
  <2> QED
    BY <2>1, <2>2
<1> QED
  BY <1>1, <1>2, LastingNext

LEMMA OneMoreProperty ==
  ASSUME NEW p, NEW q, NEW list, NEW n \in Nat, 1..(n + 1) \subseteq DOMAIN list,
         HasProperties(p, list, n), list[n + 1] \in q.properties,
         \A x \in p.properties : x.key # list[n + 1].key => x \in q.properties
  PROVE  HasProperties(q, list, n + 1)
<1> SUFFICES ASSUME NEW i \in Lasting(Keys(list), n + 1) PROVE list[i] \in q.properties
    BY DEF HasProperties
<1>1. CASE i \in Lasting(Keys(list), n) /\ Keys(list)[n + 1] # Keys(list)[i]
  <2>1. list[i].key # list[n + 1].key /\ list[i] \in p.properties
    BY <1>1 DEF Lasting, Keys, HasProperties
  <2> QED
    BY <2>1
<1> QED
  BY <1>1, LastingNext

(* A row appended repeats its own currency at most.                        *)
LEMMA AppendedRate ==
  ASSUME NEW rows \in Seq(Rate), NEW config \in Rate, NEW currency,
         currency \in Repeated(Currencies(Append(rows, config)))
  PROVE  \/ currency \in Repeated(Currencies(rows))
         \/ /\ currency = config.currency
            /\ \E row \in DOMAIN rows : rows[row].currency = currency
<1> DEFINE all == Append(rows, config)
<1>1. /\ DOMAIN all = 1..(Len(rows) + 1) /\ DOMAIN rows = 1..Len(rows) /\ Len(rows) \in Nat
      /\ \A i \in DOMAIN rows : all[i] = rows[i]
      /\ all[Len(rows) + 1] = config
  OBVIOUS
<1> HIDE DEF all
<1>2. PICK i \in DOMAIN all, j \in DOMAIN all :
         i # j /\ all[i].currency = currency /\ all[j].currency = currency
  <2>1. PICK seq : seq = Currencies(all)
    OBVIOUS
  <2>2. PICK i \in DOMAIN seq, j \in DOMAIN seq : i # j /\ seq[i] = currency /\ seq[j] = currency
    BY <2>1 DEF Repeated, all
  <2>3. DOMAIN seq = DOMAIN all /\ \A k \in DOMAIN all : seq[k] = all[k].currency
    BY <2>1 DEF Currencies
  <2> QED
    BY <2>2, <2>3
<1>3. CASE i \in DOMAIN rows /\ j \in DOMAIN rows
  BY <1>1, <1>2, <1>3 DEF Repeated, Currencies
<1> QED
  BY <1>1, <1>2, <1>3

(* What an update says of its product, in the next state.                  *)
LEMMA EffectNext ==
  ASSUME TableOK(db)', NEW u, NEW call, update'[u] = call,
         NEW p, EffectOn(call, p),
         call.pc \in UpdateInFlight => p \in db'.bank_product /\ p.id = call.product
  PROVE  /\ EffectOn(update[u], ProductOf(u))'
         /\ call.pc \in UpdateInFlight => ProductOf(u)' = p
<1>1. CASE call.pc \notin UpdateInFlight
  BY <1>1 DEF EffectOn, UpdateInFlight
<1>2. CASE call.pc \in UpdateInFlight
  <2>1. PICK id : id = call.product
    OBVIOUS
  <2>2. ProductWith(id)' = p
    BY <1>2, <2>1, ProductNext
  <2>3. ProductOf(u)' = p
    BY <2>1, <2>2 DEF ProductOf, ProductWith
  <2> QED
    BY <2>3
<1> QED
  BY <1>1, <1>2

(* An update that takes no step, and whose product no other writes to.     *)
LEMMA EffectFrame ==
  ASSUME AdminInv, TableOK(db)', NEW u \in Updates, EffectOn(update[u], ProductOf(u)),
         update'[u] = update[u],
         update[u].pc \in UpdateInFlight => ProductOf(u) \in db'.bank_product
  PROVE  /\ EffectOn(update[u], ProductOf(u))'
         /\ update[u].pc \in UpdateInFlight => ProductOf(u)' = ProductOf(u)
<1>1. PICK c, p : c = update[u] /\ p = ProductOf(u)
  OBVIOUS
<1>2. UpdateOK(c)
  BY <1>1 DEF AdminInv
<1>3. c.pc \in UpdateInFlight => p \in db'.bank_product /\ p.id = c.product
  BY <1>1, <1>2, ProductFound DEF ProductOf
<1>4. update'[u] = c /\ EffectOn(c, p)
  BY <1>1
<1> QED
  BY <1>1, <1>3, <1>4, EffectNext

(* An update that takes a step, from c to d, and its product from p to q.  *)
LEMMA OwnStep ==
  ASSUME TableOK(db)', NEW u \in Updates, NEW c, NEW d, NEW p, NEW q \in db'.bank_product,
         update[u] = c, update'[u] = d, d.product = c.product, d.dto = c.dto,
         ProductOf(u) = p, q.id = c.product,
         EffectOn(d, q), Effected(c.dto, p, q, d.pc)
  PROVE  EffectOn(update[u], ProductOf(u))' /\ TakesEffect(u)
<1>1. PICK id : id = d.product
  OBVIOUS
<1>2. ProductWith(id)' = q
  BY <1>1, ProductNext
<1>3. ProductOf(u)' = q
  BY <1>1, <1>2 DEF ProductOf, ProductWith
<1>4. EffectOn(update[u], ProductOf(u))'
  BY <1>3
<1>5. TakesEffect(u)
  BY <1>3 DEF TakesEffect
<1> QED
  BY <1>4, <1>5

LEMMA KeepsItself ==
  ASSUME NEW dto, NEW p PROVE KeepsUnnamed(dto, p, p)
BY DEF KeepsUnnamed

(* An update that reads, or has come to the end of a loop.                 *)
LEMMA OwnReading ==
  ASSUME AdminInv, TableOK(db)', NEW u \in Updates, update[u].pc \in UpdateInFlight, db' = db,
         NEW d, update' = [update EXCEPT ![u] = d],
         d.product = update[u].product, d.dto = update[u].dto, d.pc # "done",
         EffectOn(d, ProductOf(u))
  PROVE  EffectOn(update[u], ProductOf(u))' /\ TakesEffect(u)
<1>1. PICK c, p : c = update[u] /\ p = ProductOf(u)
  OBVIOUS
<1>2. p \in db'.bank_product /\ p.id = c.product
  BY <1>1, ProductFound DEF AdminInv, ProductOf
<1>3. EffectOn(d, p) /\ Effected(c.dto, p, p, d.pc)
  BY <1>1, KeepsItself DEF Effected
<1>4. update'[u] = d
  BY DEF AdminInv
<1> QED
  BY <1>1, <1>2, <1>3, <1>4, OwnStep

LEMMA ReadConfigurationsEffect ==
  ASSUME AdminInv, TableOK(db)', TableOK(db), NEW u \in Updates, ReadConfigurations(u)
  PROVE  EffectOn(update[u], ProductOf(u))' /\ TakesEffect(u)
<1> DEFINE rows == ProductOf(u).configurations
           currencies == {rows[i].currency : i \in DOMAIN rows}
<1>1. PICK first \in [currencies -> DOMAIN rows] :
         /\ \A c \in currencies : rows[first[c]].currency = c
         /\ update' = [update EXCEPT ![u].pc = "writingConfigurations", ![u].next = 1,
                                     ![u].existing = {<<c, first[c]>> : c \in currencies}]
  BY DEF ReadConfigurations, ProductOf
<1>2. update[u].pc = "configurations" /\ db' = db
  BY DEF ReadConfigurations
<1> DEFINE existing == {<<c, first[c]>> : c \in currencies}
<1>3. RowsKnown(rows, existing, [j \in 1..0 |-> update[u].dto.configurations[j]])
  <2>1. \A c \in currencies : first[c] \in DOMAIN rows /\ rows[first[c]].currency = c
    BY <1>1
  <2>2. \A row \in DOMAIN rows : rows[row].currency \in currencies
    OBVIOUS
  <2>3. \A e \in existing : \E c \in currencies : e[1] = c /\ e[2] = first[c]
    OBVIOUS
  <2>4. ASSUME NEW c \in currencies PROVE \E e \in existing : e[1] = c
    <3>1. <<c, first[c]>> \in existing
      OBVIOUS
    <3>2. <<c, first[c]>>[1] = c
      OBVIOUS
    <3> HIDE DEF existing
    <3> QED
      BY <3>1, <3>2
  <2> HIDE DEF existing, currencies, rows
  <2> QED
    BY <2>1, <2>2, <2>3, <2>4 DEF RowsKnown
<1>4. UpdateOK(update[u])
  BY DEF AdminInv
<1> HIDE DEF existing, rows
<1>5. PICK d : d = [update[u] EXCEPT !.pc = "writingConfigurations", !.next = 1,
                                     !.existing = existing]
  OBVIOUS
<1>6. update' = [update EXCEPT ![u] = d]
  BY <1>1, <1>4, <1>5 DEF AdminInv, UpdateOK, existing
<1>7. /\ d.pc = "writingConfigurations" /\ d.next = 1 /\ d.existing = existing
      /\ d.product = update[u].product /\ d.dto = update[u].dto
  BY <1>4, <1>5 DEF UpdateOK
<1>8. Len(d.dto.configurations) >= 0
  <2>1. d.dto.configurations \in Seq(Rate)
    BY <1>2, <1>4, <1>7, ColumnsTyped DEF UpdateOK, UpdateInFlight
  <2> QED
    BY <2>1
<1>9. EffectOn(d, ProductOf(u))
  <2>1. HasConfigurations(ProductOf(u), d.dto.configurations, 0)
    BY LastingNone DEF HasConfigurations
  <2>2. PICK n : n = 0
    OBVIOUS
  <2>3. d.next - 1 = n /\ n <= Len(d.dto.configurations)
    BY <1>7, <1>8, <2>2
  <2>4. RowsKnown(ProductOf(u).configurations, d.existing, [j \in 1..n |-> d.dto.configurations[j]])
    BY <1>3, <1>7, <2>2 DEF rows
  <2> QED
    BY <1>7, <2>1, <2>2, <2>3, <2>4 DEF EffectOn
<1>10. update[u].pc \in UpdateInFlight /\ d.pc # "done"
  BY <1>2, <1>7 DEF UpdateInFlight
<1> QED
  BY <1>2, <1>6, <1>7, <1>9, <1>10, OwnReading

(* Over a row of its currency that is known, or as a row of its own: then  *)
(* no row has its currency but one the update has named before.            *)
LEMMA WriteConfigurationEffect ==
  ASSUME AdminInv, TableOK(db), TableOK(db)', NEW u \in Updates,
         EffectOn(update[u], ProductOf(u)), WriteConfiguration(u)
  PROVE  EffectOn(update[u], ProductOf(u))' /\ TakesEffect(u)
<1>1. PICK c, p : c = update[u] /\ p = ProductOf(u)
  OBVIOUS
<1> DEFINE list == c.dto.configurations
           rows == p.configurations
           config == list[c.next]
           found == {e[2] : e \in {x \in c.existing : x[1] = config.currency}}
           written == IF found = {} THEN Append(rows, config)
                      ELSE [rows EXCEPT ![CHOOSE i \in found : TRUE] = config]
           q == [p EXCEPT !.configurations = written]
<1>2. /\ c.pc = "writingConfigurations" /\ c.next <= Len(list)
      /\ db' = Changed(db, "bank_product", p, q)
      /\ update' = [update EXCEPT ![u].next = @ + 1]
  BY <1>1 DEF WriteConfiguration, ProductOf
<1>3. UpdateOK(c) /\ c.pc \in UpdateInFlight
  BY <1>1, <1>2 DEF AdminInv, UpdateInFlight
<1>4. list \in Seq(Rate)
  BY <1>3, ColumnsTyped DEF UpdateOK
<1>5. p \in db.bank_product /\ p.id = c.product /\ p \in BankProduct
  BY <1>1, <1>3, ProductFound DEF TableOK, Typed, ProductOf
<1>6. /\ rows \in Seq(Rate) /\ q.configurations = written /\ q.id = p.id
      /\ q.properties = p.properties
      /\ \A column \in Columns \cup Credentials : q[column] = p[column]
  BY <1>5 DEF BankProduct, Columns, Credentials
<1>7. q \in db'.bank_product
  BY <1>2 DEF Changed, TableOK, Typed, EmptyDb
<1>8. PICK n \in Nat : c.next = n + 1
  <2>1. c.next \in Nat \ {0}
    BY <1>3 DEF UpdateOK
  <2>2. c.next - 1 \in Nat /\ c.next = (c.next - 1) + 1
    BY <2>1
  <2> QED
    BY <2>2
<1> DEFINE d == [c EXCEPT !.next = n + 2]
<1>9. update' = [update EXCEPT ![u] = d]
  <2>1. update' = [update EXCEPT ![u] = [c EXCEPT !.next = c.next + 1]]
    BY <1>1, <1>2 DEF AdminInv
  <2>2. c.next + 1 = n + 2
    BY <1>8
  <2> HIDE DEF q
  <2> QED
    BY <2>1, <2>2
<1>10. /\ d.pc = "writingConfigurations" /\ d.next - 1 = n + 1 /\ d.existing = c.existing
       /\ d.product = c.product /\ d.dto = c.dto
  BY <1>2, <1>3 DEF UpdateOK
<1>11. /\ n + 1 \in DOMAIN list /\ 1..(n + 1) \subseteq DOMAIN list /\ n + 1 <= Len(list)
       /\ config = list[n + 1] /\ config \in Rate
  BY <1>2, <1>4, <1>8
<1> HIDE DEF list, rows, config, found, written, q, d
<1>12. /\ RowsKnown(rows, c.existing, [j \in 1..n |-> list[j]])
       /\ HasConfigurations(p, list, n)
  <2>1. c.next - 1 = n
    BY <1>8
  <2> QED
    BY <1>1, <1>2, <2>1 DEF EffectOn, list, rows
<1>13. CASE found = {}
  <2>1. written = Append(rows, config)
    BY <1>13 DEF written
  <2>2. /\ DOMAIN written = 1..(Len(rows) + 1) /\ DOMAIN rows = 1..Len(rows) /\ Len(rows) \in Nat
        /\ \A row \in DOMAIN rows : written[row] = rows[row]
        /\ written[Len(rows) + 1] = config
    BY <1>6, <1>11, <2>1
  <2>3. ASSUME NEW row \in DOMAIN rows, rows[row].currency = config.currency
        PROVE  \E j \in 1..n : list[j].currency = config.currency
    <3>1. ~ \E e \in c.existing : e[1] = config.currency
      BY <1>13 DEF found
    <3> QED
      BY <1>12, <2>3, <3>1 DEF RowsKnown
  <2>4. RowsKnown(written, c.existing, [j \in 1..(n + 1) |-> list[j]])
    <3>1. \A e \in c.existing : e[2] \in DOMAIN written /\ written[e[2]].currency = e[1]
      BY <1>12, <2>2 DEF RowsKnown
    <3>2. ASSUME NEW row \in DOMAIN written
          PROVE  \/ \E e \in c.existing : e[1] = written[row].currency
                 \/ \E j \in 1..(n + 1) : list[j].currency = written[row].currency
      <4>1. CASE row \in DOMAIN rows
        BY <1>12, <2>2, <4>1 DEF RowsKnown
      <4>2. CASE row = Len(rows) + 1
        BY <1>11, <2>2, <4>2
      <4> QED
        BY <2>2, <4>1, <4>2
    <3> QED
      BY <3>1, <3>2 DEF RowsKnown
  <2>5. HasConfigurations(q, list, n + 1)
    <3>1. Len(rows) + 1 \in DOMAIN written
      BY <2>2
    <3>2. \E row \in DOMAIN q.configurations : q.configurations[row] = list[n + 1]
      BY <1>6, <1>11, <2>2, <3>1
    <3>3. \A row \in DOMAIN p.configurations :
             row \in DOMAIN q.configurations /\ q.configurations[row] = p.configurations[row]
      BY <1>6, <2>2 DEF rows
    <3> QED
      BY <1>11, <1>12, <3>2, <3>3, OneMoreConfiguration
  <2>6. Repeated(Currencies(written)) \subseteq Repeated(Currencies(rows)) \cup Repeated(Currencies(list))
    <3>1. ASSUME NEW currency \in Repeated(Currencies(written)),
                 currency \notin Repeated(Currencies(rows))
          PROVE  currency \in Repeated(Currencies(list))
      <4>1. currency = config.currency /\ \E row \in DOMAIN rows : rows[row].currency = currency
        BY <1>6, <1>11, <2>1, <3>1, AppendedRate
      <4>2. PICK j \in 1..n : list[j].currency = currency
        BY <2>3, <4>1
      <4>3. j # n + 1 /\ j \in DOMAIN list /\ list[n + 1].currency = currency
        BY <1>11, <4>1
      <4> QED
        BY <1>11, <4>2, <4>3 DEF Repeated, Currencies
    <3> QED
      BY <3>1
  <2> QED
    <3>1. EffectOn(d, q)
      BY <1>6, <1>10, <1>11, <2>4, <2>5 DEF EffectOn, list
    <3>2. KeepsUnnamed(c.dto, p, q)
      BY <1>6, <2>2 DEF KeepsUnnamed, rows
    <3>3. Effected(c.dto, p, q, d.pc)
      BY <1>6, <1>10, <2>6, <3>2 DEF Effected, list, rows
    <3>4. update'[u] = d
      BY <1>9 DEF AdminInv
    <3> QED
      BY <1>1, <1>5, <1>6, <1>7, <1>10, <3>1, <3>3, <3>4, OwnStep
<1>14. CASE found # {}
  <2>1. PICK i \in found : written = [rows EXCEPT ![i] = config]
    BY <1>14 DEF written
  <2>2. i \in DOMAIN rows /\ rows[i].currency = config.currency
    BY <1>12 DEF RowsKnown, found
  <2>3. /\ DOMAIN written = DOMAIN rows /\ written[i] = config
        /\ \A row \in DOMAIN rows : row # i => written[row] = rows[row]
        /\ \A row \in DOMAIN rows : written[row].currency = rows[row].currency
    BY <1>6, <2>1, <2>2
  <2>4. RowsKnown(written, c.existing, [j \in 1..(n + 1) |-> list[j]])
    BY <1>12, <2>3 DEF RowsKnown
  <2>5. HasConfigurations(q, list, n + 1)
    <3>1. \E row \in DOMAIN q.configurations : q.configurations[row] = list[n + 1]
      BY <1>6, <1>11, <2>2, <2>3
    <3>2. \A row \in DOMAIN p.configurations :
             p.configurations[row].currency # list[n + 1].currency =>
                row \in DOMAIN q.configurations /\ q.configurations[row] = p.configurations[row]
      BY <1>6, <1>11, <2>2, <2>3 DEF rows
    <3> QED
      BY <1>11, <1>12, <3>1, <3>2, OneMoreConfiguration
  <2>6. Currencies(written) = Currencies(rows)
    BY <2>3 DEF Currencies
  <2> QED
    <3>1. EffectOn(d, q)
      BY <1>6, <1>10, <1>11, <2>4, <2>5 DEF EffectOn, list
    <3>2. KeepsUnnamed(c.dto, p, q)
      <4>1. \E j \in DOMAIN list : list[j].currency = rows[i].currency
        BY <1>11, <2>2
      <4> QED
        BY <1>6, <2>3, <4>1 DEF KeepsUnnamed, rows, list
    <3>3. Effected(c.dto, p, q, d.pc)
      BY <1>6, <1>10, <2>6, <3>2 DEF Effected, list, rows
    <3>4. update'[u] = d
      BY <1>9 DEF AdminInv
    <3> QED
      BY <1>1, <1>5, <1>6, <1>7, <1>10, <3>1, <3>3, <3>4, OwnStep
<1> QED
  BY <1>13, <1>14

(* The ends of the loops and the read between them.                        *)
LEMMA LoopEndsEffect ==
  ASSUME AdminInv, TableOK(db)', NEW u \in Updates, EffectOn(update[u], ProductOf(u)),
         EndConfigurations(u) \/ ReadProperties(u) \/ EndProperties(u)
  PROVE  EffectOn(update[u], ProductOf(u))' /\ TakesEffect(u)
<1>1. PICK c, p : c = update[u] /\ p = ProductOf(u)
  OBVIOUS
<1>2. UpdateOK(c) /\ EffectOn(c, p) /\ db' = db
  BY <1>1 DEF AdminInv, EndConfigurations, ReadProperties, EndProperties
<1>3. DOMAIN c = {"pc", "product", "dto", "existing", "next"} /\ c.next \in Nat \ {0}
  BY <1>2 DEF UpdateOK
<1>4. ASSUME c.pc \in UpdateInFlight
      PROVE  Len(c.dto.configurations) \in Nat /\ Len(c.dto.properties) \in Nat
  <2>1. c.dto.configurations \in Seq(Rate) /\ c.dto.properties \in Seq(Property)
    BY <1>2, <1>4, ColumnsTyped DEF UpdateOK
  <2> QED
    BY <2>1
<1>5. CASE EndConfigurations(u)
  <2>1. /\ c.pc = "writingConfigurations" /\ c.next > Len(c.dto.configurations)
        /\ update' = [update EXCEPT ![u] = [c EXCEPT !.pc = "properties", !.existing = {}]]
    BY <1>1, <1>5 DEF EndConfigurations, AdminInv
  <2>2. PICK d : d = [c EXCEPT !.pc = "properties", !.existing = {}]
    OBVIOUS
  <2>3. d.pc = "properties" /\ d.product = c.product /\ d.dto = c.dto
    BY <1>3, <2>2
  <2>4. c.next - 1 = Len(c.dto.configurations)
    BY <1>2, <1>3, <1>4, <2>1 DEF EffectOn, UpdateInFlight
  <2>5. EffectOn(d, p)
    BY <1>2, <2>1, <2>3, <2>4 DEF EffectOn
  <2> QED
    BY <1>1, <1>2, <2>1, <2>2, <2>3, <2>5, OwnReading DEF UpdateInFlight
<1>6. CASE ReadProperties(u)
  <2>1. PICK existing :
           /\ c.pc = "properties"
           /\ update' = [update EXCEPT ![u] = [c EXCEPT !.pc = "writingProperties", !.next = 1,
                                                        !.existing = existing]]
    BY <1>1, <1>6 DEF ReadProperties, AdminInv
  <2>2. PICK d : d = [c EXCEPT !.pc = "writingProperties", !.next = 1, !.existing = existing]
    OBVIOUS
  <2>3. d.pc = "writingProperties" /\ d.next = 1 /\ d.product = c.product /\ d.dto = c.dto
    BY <1>3, <2>2
  <2>4. HasProperties(p, c.dto.properties, 0)
    BY LastingNone DEF HasProperties
  <2>5. PICK n : n = 0
    OBVIOUS
  <2>6. d.next - 1 = n /\ n <= Len(d.dto.properties)
    BY <1>4, <2>1, <2>3, <2>5 DEF UpdateInFlight
  <2>7. EffectOn(d, p)
    BY <1>2, <2>1, <2>3, <2>4, <2>5, <2>6 DEF EffectOn
  <2> QED
    BY <1>1, <1>2, <2>1, <2>2, <2>3, <2>7, OwnReading DEF UpdateInFlight
<1>7. CASE EndProperties(u)
  <2>1. /\ c.pc = "writingProperties" /\ c.next > Len(c.dto.properties)
        /\ update' = [update EXCEPT ![u] = [c EXCEPT !.pc = "product", !.existing = {}]]
    BY <1>1, <1>7 DEF EndProperties, AdminInv
  <2>2. PICK d : d = [c EXCEPT !.pc = "product", !.existing = {}]
    OBVIOUS
  <2>3. d.pc = "product" /\ d.product = c.product /\ d.dto = c.dto
    BY <1>3, <2>2
  <2>4. c.next - 1 = Len(c.dto.properties)
    BY <1>2, <1>3, <1>4, <2>1 DEF EffectOn, UpdateInFlight
  <2>5. EffectOn(d, p)
    BY <1>2, <2>1, <2>3, <2>4 DEF EffectOn
  <2> QED
    BY <1>1, <1>2, <2>1, <2>2, <2>3, <2>5, OwnReading DEF UpdateInFlight
<1> QED
  BY <1>5, <1>6, <1>7

LEMMA ThrowsEffect ==
  ASSUME AdminInv, TableOK(db)', NEW u \in Updates, update[u].pc \in UpdateInFlight, db' = db,
         update' = [update EXCEPT ![u].pc = "threw"]
  PROVE  EffectOn(update[u], ProductOf(u))' /\ TakesEffect(u)
<1>1. UpdateOK(update[u])
  BY DEF AdminInv
<1>2. PICK d : d = [update[u] EXCEPT !.pc = "threw"]
  OBVIOUS
<1>3. update' = [update EXCEPT ![u] = d]
  BY <1>2 DEF AdminInv
<1>4. d.pc = "threw" /\ d.product = update[u].product /\ d.dto = update[u].dto
  BY <1>1, <1>2 DEF UpdateOK
<1>5. EffectOn(d, ProductOf(u))
  BY <1>4 DEF EffectOn
<1> QED
  BY <1>3, <1>4, <1>5, OwnReading

LEMMA WritePropertyEffect ==
  ASSUME AdminInv, TableOK(db), TableOK(db)', NEW u \in Updates,
         EffectOn(update[u], ProductOf(u)), WriteProperty(u)
  PROVE  EffectOn(update[u], ProductOf(u))' /\ TakesEffect(u)
<1>1. PICK c, p : c = update[u] /\ p = ProductOf(u)
  OBVIOUS
<1> DEFINE list == c.dto.properties
           property == list[c.next]
           stored == {x \in p.properties : x.key = property.key}
           q == [p EXCEPT !.properties = (@ \ stored) \cup {property}]
<1>2. /\ c.pc = "writingProperties" /\ c.pc \in UpdateInFlight /\ c.next <= Len(list)
      /\ \/ db' = db /\ update' = [update EXCEPT ![u].pc = "threw"]
         \/ /\ db' = Changed(db, "bank_product", p, q)
            /\ update' = [update EXCEPT ![u].next = @ + 1]
  BY <1>1 DEF WriteProperty, ProductOf, UpdateInFlight
<1>3. CASE db' = db /\ update' = [update EXCEPT ![u].pc = "threw"]
  BY <1>1, <1>2, <1>3, ThrowsEffect
<1>4. CASE /\ db' = Changed(db, "bank_product", p, q)
           /\ update' = [update EXCEPT ![u].next = @ + 1]
  <2>1. UpdateOK(c) /\ EffectOn(c, p)
    BY <1>1 DEF AdminInv
  <2>2. list \in Seq(Property)
    BY <1>2, <2>1, ColumnsTyped DEF UpdateOK
  <2>3. p \in db.bank_product /\ p.id = c.product /\ p \in BankProduct
    BY <1>1, <1>2, <2>1, ProductFound DEF TableOK, Typed, ProductOf
  <2>4. /\ q.properties = (p.properties \ stored) \cup {property}
        /\ q.configurations = p.configurations /\ q.id = p.id
        /\ \A column \in Columns \cup Credentials : q[column] = p[column]
    BY <2>3 DEF BankProduct, Columns, Credentials
  <2>5. q \in db'.bank_product
    BY <1>4 DEF Changed, TableOK, Typed, EmptyDb
  <2>6. PICK n \in Nat : c.next = n + 1
    <3>1. c.next \in Nat \ {0}
      BY <2>1 DEF UpdateOK
    <3>2. c.next - 1 \in Nat /\ c.next = (c.next - 1) + 1
      BY <3>1
    <3> QED
      BY <3>2
  <2> DEFINE d == [c EXCEPT !.next = n + 2]
  <2>7. update' = [update EXCEPT ![u] = d]
    <3>1. update' = [update EXCEPT ![u] = [c EXCEPT !.next = c.next + 1]]
      BY <1>1, <1>4 DEF AdminInv
    <3>2. c.next + 1 = n + 2
      BY <2>6
    <3> HIDE DEF q
    <3> QED
      BY <3>1, <3>2
  <2>8. /\ d.pc = "writingProperties" /\ d.next - 1 = n + 1
        /\ d.product = c.product /\ d.dto = c.dto
    BY <1>2, <2>1 DEF UpdateOK
  <2>9. 1..(n + 1) \subseteq DOMAIN list /\ n + 1 <= Len(list) /\ property = list[n + 1]
    BY <1>2, <2>2, <2>6
  <2> HIDE DEF list, property, q, d
  <2>10. HasProperties(p, list, n)
    <3>1. c.next - 1 = n
      BY <2>6
    <3> QED
      BY <1>2, <2>1, <3>1 DEF EffectOn, list
  <2>11. HasProperties(q, list, n + 1)
    <3>1. \A x \in p.properties : x.key # list[n + 1].key => x \in q.properties
      BY <2>4, <2>9
    <3> QED
      BY <2>4, <2>9, <2>10, <3>1, OneMoreProperty
  <2>12. HasConfigurations(q, c.dto.configurations, Len(c.dto.configurations))
    BY <1>2, <2>1, <2>4 DEF EffectOn, HasConfigurations
  <2>13. EffectOn(d, q) /\ Effected(c.dto, p, q, d.pc)
    <3>1. \A x \in stored : \E i \in DOMAIN list : list[i].key = x.key
      BY <2>9
    <3>2. KeepsUnnamed(c.dto, p, q)
      BY <2>4, <3>1 DEF KeepsUnnamed, list
    <3> QED
      BY <2>4, <2>8, <2>9, <2>11, <2>12, <3>2 DEF EffectOn, Effected, list
  <2>14. update'[u] = d
    BY <2>7 DEF AdminInv
  <2> QED
    BY <1>1, <2>3, <2>4, <2>5, <2>8, <2>13, <2>14, OwnStep
<1> QED
  BY <1>2, <1>3, <1>4

(* The row, and the answer, which decrypts what findOne would.             *)
LEMMA SentIsStored ==
  ASSUME NEW dto \in ProductDtos, NEW field \in Credentials, NEW old
  PROVE  LET stored == Merged(old, EncryptTruthy(dto[field]))
         IN  /\ dto[field] = Absent => stored = old
             /\ Truthy(dto[field]) => Decrypts(stored) /\ decrypt(stored) = dto[field]
             /\ dto[field] = Empty => stored = Empty
<1>1. dto[field] \in {Absent, Empty} \cup {Plain(text) : text \in Texts}
  BY ConfigurationAssumption DEF TypedDto, Credentials
<1>2. PICK f : f = dto[field]
  OBVIOUS
<1>3. PICK stored : stored = Merged(old, EncryptTruthy(f))
  OBVIOUS
<1>4. Absent # Empty
  BY DEF Absent, Empty, Plain
<1>5. CASE ~ Truthy(f)
  <2>1. stored = IF f = Absent THEN old ELSE f
    BY <1>3, <1>5 DEF Merged, EncryptTruthy
  <2> QED
    BY <1>2, <1>3, <1>4, <1>5, <2>1
<1>6. CASE Truthy(f)
  <2>1. PICK text : f = Plain(text)
    BY <1>1, <1>2, <1>6 DEF Truthy, Empty
  <2>2. f # Absent /\ f # Empty
    BY <1>6 DEF Truthy
  <2>3. EncryptTruthy(f) = [form |-> "cipher", text |-> text]
    BY <1>6, <2>1 DEF EncryptTruthy, encrypt, Plain
  <2>4. stored = [form |-> "cipher", text |-> text]
    <3>1. [form |-> "cipher", text |-> text] # Absent
      BY DEF Absent
    <3> QED
      BY <1>3, <2>3, <3>1 DEF Merged
  <2>5. Decrypts(stored) /\ decrypt(stored) = f
    BY <2>1, <2>4 DEF Decrypts, decrypt
  <2> QED
    BY <1>2, <1>3, <2>2, <2>5
<1> QED
  BY <1>5, <1>6

LEMMA WriteProductEffect ==
  ASSUME AdminInv, TableOK(db), TableOK(db)', NEW u \in Updates,
         EffectOn(update[u], ProductOf(u)), WriteProduct(u)
  PROVE  EffectOn(update[u], ProductOf(u))' /\ TakesEffect(u)
<1>1. PICK c, p : c = update[u] /\ p = ProductOf(u)
  OBVIOUS
<1> DEFINE sent == c.dto.columns
           q == [p EXCEPT !.bank = Given(sent, "bank", @),
                          !.name = Given(sent, "name", @),
                          !.is_active = Given(sent, "is_active", @),
                          !.api_url = Merged(@, EncryptTruthy(c.dto.api_url)),
                          !.api_key = Merged(@, EncryptTruthy(c.dto.api_key)),
                          !.api_secret = Merged(@, EncryptTruthy(c.dto.api_secret))]
           banked == \E b \in db.banks : b.code = q.bank
           answers == banked /\ Decrypts(q.api_url) /\ Decrypts(q.api_key)
           pc == IF answers THEN "done" ELSE "threw"
           d == [c EXCEPT !.pc = pc]
<1>2. /\ c.pc = "product" /\ c.pc \in UpdateInFlight
      /\ db' = IF banked THEN Changed(db, "bank_product", p, q) ELSE db
      /\ update' = [update EXCEPT ![u].pc = pc]
  BY <1>1 DEF WriteProduct, ProductOf, UpdateInFlight
<1>3. UpdateOK(c) /\ EffectOn(c, p) /\ c.dto \in ProductDtos
  BY <1>1, <1>2 DEF AdminInv, UpdateOK
<1>4. p \in db.bank_product /\ p.id = c.product /\ p \in BankProduct
  BY <1>1, <1>2, <1>3, ProductFound DEF TableOK, Typed, ProductOf
<1>5. /\ q.configurations = p.configurations /\ q.properties = p.properties /\ q.id = p.id
      /\ \A column \in Columns : q[column] = Given(sent, column, p[column])
      /\ \A field \in Credentials : q[field] = Merged(p[field], EncryptTruthy(c.dto[field]))
  BY <1>4 DEF BankProduct, Columns, Credentials
<1>6. pc = "done" => FindsProduct(q)
  BY DEF FindsProduct
<1>7. pc \in {"done", "threw"}
  OBVIOUS
<1>8. CASE ~ banked
  BY <1>1, <1>2, <1>8, ThrowsEffect
<1>9. CASE banked
  <2>1. q \in db'.bank_product
    <3>1. db' = Changed(db, "bank_product", p, q)
      BY <1>2, <1>9
    <3> HIDE DEF q
    <3> QED
      BY <3>1 DEF Changed, TableOK, Typed, EmptyDb
  <2>2. KeepsUnnamed(c.dto, p, q)
    <3>1. \A column \in Columns \ DOMAIN sent : q[column] = p[column]
      BY <1>5 DEF Given
    <3>2. \A field \in Credentials : c.dto[field] = Absent => q[field] = p[field]
      BY <1>3, <1>5, SentIsStored
    <3> HIDE DEF q
    <3> QED
      BY <1>5, <3>1, <3>2 DEF KeepsUnnamed
  <2>3. HasRow(q, c.dto)
    <3>1. DOMAIN sent \subseteq Columns
      BY <1>3, ConfigurationAssumption DEF TypedDto
    <3>2. \A column \in DOMAIN sent : q[column] = sent[column]
      BY <1>5, <3>1 DEF Given
    <3>3. \A field \in Credentials :
             /\ Truthy(c.dto[field]) => Decrypts(q[field]) /\ decrypt(q[field]) = c.dto[field]
             /\ c.dto[field] = Empty => q[field] = Empty
      BY <1>3, <1>5, SentIsStored
    <3> HIDE DEF q
    <3> QED
      BY <3>2, <3>3 DEF HasRow
  <2> HIDE DEF q, pc
  <2>4. update'[u] = d
    BY <1>1, <1>2 DEF AdminInv
  <2>5. d.pc = pc /\ d.product = c.product /\ d.dto = c.dto
    BY <1>3 DEF UpdateOK
  <2> HIDE DEF d
  <2>6. EffectOn(d, q)
    BY <1>7, <2>5 DEF EffectOn
  <2>7. Effected(c.dto, p, q, d.pc)
    BY <1>2, <1>3, <1>5, <1>6, <2>2, <2>3, <2>5
       DEF EffectOn, Effected, HasConfigurations, HasProperties
  <2> QED
    BY <1>1, <1>4, <1>5, <2>1, <2>4, <2>5, <2>6, <2>7, OwnStep
<1> QED
  BY <1>8, <1>9

(* An update that takes no step has nothing taken from it.                 *)
LEMMA UntouchedEffect ==
  ASSUME AdminInv, TableOK(db)', NEW u \in Updates, EffectOn(update[u], ProductOf(u)),
         update'[u] = update[u],
         update[u].pc \in UpdateInFlight => ProductOf(u) \in db'.bank_product
  PROVE  EffectOn(update[u], ProductOf(u))' /\ TakesEffect(u)
<1>1. /\ EffectOn(update[u], ProductOf(u))'
      /\ update[u].pc \in UpdateInFlight => ProductOf(u)' = ProductOf(u)
  BY EffectFrame
<1>2. "done" \notin UpdateInFlight
  BY DEF UpdateInFlight
<1> QED
  BY <1>1, <1>2, KeepsItself DEF TakesEffect, Effected

AllEffect == \A u \in Updates \ contended : TakesEffect(u)

LEMMA NoUpdateSteps ==
  ASSUME AdminInv, TableOK(db)', EffectInv, UNCHANGED adminVars,
         db.bank_product \subseteq db'.bank_product
  PROVE  EffectInv' /\ AllEffect
<1>1. update' = update /\ contended' = contended
  BY DEF adminVars
<1>2. ASSUME NEW u \in Updates \ contended
      PROVE  EffectOn(update[u], ProductOf(u))' /\ TakesEffect(u)
  <2>1. update[u].pc \in UpdateInFlight => ProductOf(u) \in db'.bank_product
    BY ProductFound DEF AdminInv, ProductOf
  <2> QED
    BY <1>1, <2>1, UntouchedEffect DEF EffectInv
<1>3. Rivals'
  BY <1>1 DEF EffectInv, Rivals
<1> QED
  BY <1>1, <1>2, <1>3 DEF EffectInv, AllEffect

(* An update begins: those it meets are contended from then on.            *)
LEMMA StartEffect ==
  ASSUME AdminInv, TableOK(db)', EffectInv, NEW u \in Updates, NEW id, NEW dto,
         StartUpdate(u, id, dto)
  PROVE  EffectInv' /\ AllEffect
<1> DEFINE call == [IdleUpdate EXCEPT !.pc = "configurations", !.product = id, !.dto = dto]
           rivals == {v \in Updates : update[v].pc \in UpdateInFlight /\ update[v].product = id}
<1>1. /\ db' = db /\ update[u].pc = "idle" /\ update' = [update EXCEPT ![u] = call]
      /\ contended' = contended \cup rivals \cup (IF rivals = {} THEN {} ELSE {u})
  BY DEF StartUpdate
<1>2. call.pc = "configurations" /\ call.product = id
  BY DEF IdleUpdate
<1>3. update'[u] = call /\ \A v \in Updates \ {u} : update'[v] = update[v]
  BY <1>1 DEF AdminInv
<1> HIDE DEF call
<1>4. ASSUME NEW v \in Updates \ contended, v # u
      PROVE  EffectOn(update[v], ProductOf(v))' /\ TakesEffect(v)
  <2>1. update[v].pc \in UpdateInFlight => ProductOf(v) \in db'.bank_product
    BY <1>1, ProductFound DEF AdminInv, ProductOf
  <2> QED
    BY <1>3, <1>4, <2>1, UntouchedEffect DEF EffectInv
<1>5. EffectOn(update[u], ProductOf(u))' /\ TakesEffect(u)
  <2>1. EffectOn(update[u], ProductOf(u))'
    BY <1>2, <1>3 DEF EffectOn
  <2> QED
    BY <1>1, <2>1 DEF TakesEffect, UpdateInFlight
<1>6. Rivals'
  <2>1. ASSUME NEW v \in Updates, NEW w \in Updates, v # w,
               update'[v].product = update'[w].product,
               update'[v].pc \in UpdateInFlight, update'[w].pc \in UpdateInFlight
        PROVE  v \in contended'
    <3>1. CASE v # u /\ w # u
      BY <1>1, <1>3, <2>1, <3>1 DEF EffectInv, Rivals
    <3>2. CASE v = u
      <4>1. w \in rivals
        BY <1>2, <1>3, <2>1, <3>2
      <4> HIDE DEF rivals
      <4> QED
        BY <1>1, <3>2, <4>1
    <3>3. CASE w = u
      <4>1. v \in rivals
        BY <1>2, <1>3, <2>1, <3>3
      <4> HIDE DEF rivals
      <4> QED
        BY <1>1, <4>1
    <3> QED
      BY <3>1, <3>2, <3>3
  <2> QED
    BY <2>1 DEF Rivals
<1>7. contended \subseteq contended'
  BY <1>1
<1> QED
  BY <1>4, <1>5, <1>6, <1>7 DEF EffectInv, AllEffect

(* What a step of an update leaves alone.                                  *)
LEMMA StepLeaves ==
  ASSUME AdminInv, TableOK(db), NEW u \in Updates, UpdateStep(u) \/ UpdateThrows(u)
  PROVE  /\ update[u].pc \in UpdateInFlight
         /\ db.bank_product \ {ProductOf(u)} \subseteq db'.bank_product
         /\ contended' = contended /\ update'[u].product = update[u].product
         /\ \A v \in Updates \ {u} : update'[v] = update[v]
<1>1. /\ update[u].pc \in UpdateInFlight
      /\ contended' = contended
      /\ db' = db \/ \E q : db' = Changed(db, "bank_product", ProductOf(u), q)
  <2>1. CASE UpdateThrows(u) \/ ReadConfigurations(u) \/ EndConfigurations(u)
             \/ ReadProperties(u) \/ EndProperties(u)
    BY <2>1 DEF UpdateThrows, ReadConfigurations, EndConfigurations, ReadProperties,
                EndProperties, UpdateInFlight
  <2>2. CASE WriteConfiguration(u)
    BY <2>2 DEF WriteConfiguration, UpdateInFlight, ProductOf
  <2>3. CASE WriteProperty(u)
    BY <2>3 DEF WriteProperty, UpdateInFlight, ProductOf
  <2>4. CASE WriteProduct(u)
    BY <2>4 DEF WriteProduct, UpdateInFlight, ProductOf
  <2> QED
    BY <2>1, <2>2, <2>3, <2>4 DEF UpdateStep
<1>2. db.bank_product \ {ProductOf(u)} \subseteq db'.bank_product
  BY <1>1 DEF Changed, TableOK, Typed, EmptyDb
<1>3. DOMAIN update = Updates /\ DOMAIN update[u] = {"pc", "product", "dto", "existing", "next"}
  BY DEF AdminInv, UpdateOK
<1>4. update'[u].product = update[u].product /\ \A v \in Updates \ {u} : update'[v] = update[v]
  <2>1. CASE UpdateThrows(u)
    BY <1>3, <2>1 DEF UpdateThrows
  <2>2. CASE ReadConfigurations(u)
    BY <1>3, <2>2 DEF ReadConfigurations
  <2>3. CASE EndConfigurations(u) \/ ReadProperties(u) \/ EndProperties(u)
    BY <1>3, <2>3 DEF EndConfigurations, ReadProperties, EndProperties
  <2>4. CASE WriteConfiguration(u)
    BY <1>3, <2>4 DEF WriteConfiguration
  <2>5. CASE WriteProperty(u)
    BY <1>3, <2>5 DEF WriteProperty
  <2>6. CASE WriteProduct(u)
    BY <1>3, <2>6 DEF WriteProduct
  <2> QED
    BY <2>1, <2>2, <2>3, <2>4, <2>5, <2>6 DEF UpdateStep
<1> QED
  BY <1>1, <1>2, <1>4

LEMMA UpdateStepEffect ==
  ASSUME AdminInv, TableOK(db), TableOK(db)', EffectInv, NEW u \in Updates,
         UpdateStep(u) \/ UpdateThrows(u)
  PROVE  EffectInv' /\ AllEffect
<1>1. /\ update[u].pc \in UpdateInFlight
      /\ db.bank_product \ {ProductOf(u)} \subseteq db'.bank_product
      /\ contended' = contended /\ update'[u].product = update[u].product
      /\ \A v \in Updates \ {u} : update'[v] = update[v]
  BY StepLeaves
<1>2. ASSUME NEW v \in Updates \ contended, v # u
      PROVE  EffectOn(update[v], ProductOf(v))' /\ TakesEffect(v)
  <2>1. ASSUME update[v].pc \in UpdateInFlight PROVE ProductOf(v) \in db'.bank_product
    <3>1. update[v].product # update[u].product
      BY <1>1, <1>2, <2>1 DEF EffectInv, Rivals
    <3>2. /\ ProductOf(v) \in db.bank_product /\ ProductOf(v).id = update[v].product
          /\ ProductOf(u).id = update[u].product
      BY <1>1, <2>1, ProductFound DEF AdminInv, ProductOf
    <3> QED
      BY <1>1, <3>1, <3>2
  <2> QED
    BY <1>1, <1>2, <2>1, UntouchedEffect DEF EffectInv
<1>3. ASSUME u \notin contended
      PROVE  EffectOn(update[u], ProductOf(u))' /\ TakesEffect(u)
  <2>1. EffectOn(update[u], ProductOf(u))
    BY <1>3 DEF EffectInv
  <2>2. CASE UpdateThrows(u)
    BY <1>1, <2>1, <2>2, ThrowsEffect DEF UpdateThrows
  <2> QED
    BY <2>1, <2>2, ReadConfigurationsEffect, WriteConfigurationEffect, LoopEndsEffect,
       WritePropertyEffect, WriteProductEffect DEF UpdateStep
<1>4. Rivals'
  BY <1>1 DEF EffectInv, Rivals
<1> QED
  BY <1>1, <1>2, <1>3, <1>4 DEF EffectInv, AllEffect

(* A death cuts them off where they are.                                   *)
LEMMA DieEffect ==
  ASSUME AdminInv, TableOK(db)', EffectInv, DieWithMemory
  PROVE  EffectInv' /\ AllEffect
<1>1. /\ db' = db /\ contended' = contended
      /\ update' = [u \in Updates |-> IF update[u].pc \in UpdateInFlight
                                      THEN [update[u] EXCEPT !.pc = "cut"] ELSE update[u]]
  BY DEF DieWithMemory, Die, CutUpdates
<1>2. ASSUME NEW u \in Updates
      PROVE  /\ update'[u].pc \notin UpdateInFlight /\ update'[u].product = update[u].product
             /\ update[u].pc \in UpdateInFlight => update'[u].pc = "cut"
  <2>1. DOMAIN update[u] = {"pc", "product", "dto", "existing", "next"}
    BY DEF AdminInv, UpdateOK
  <2> QED
    BY <1>1, <2>1 DEF UpdateInFlight
<1>3. ASSUME NEW u \in Updates PROVE EffectOn(update[u], ProductOf(u))' /\ TakesEffect(u)
  <2>1. EffectOn(update[u], ProductOf(u))'
    BY <1>2 DEF EffectOn, UpdateInFlight
  <2>2. ProductOf(u)' = ProductOf(u)
    BY <1>1, <1>2 DEF ProductOf, ProductWith
  <2> QED
    BY <1>2, <2>1, <2>2, KeepsItself DEF TakesEffect, Effected
<1> QED
  BY <1>2, <1>3 DEF EffectInv, AllEffect, Rivals

LEMMA EffectStep == ConfigInv /\ ConfigInv' /\ EffectInv /\ [Next]_vars => EffectInv' /\ AllEffect
<1> SUFFICES ASSUME ConfigInv, ConfigInv', EffectInv, [Next]_vars
             PROVE  EffectInv' /\ AllEffect
    OBVIOUS
<1>1. AdminInv /\ TableOK(db) /\ TableOK(db)'
  BY DEF ConfigInv
<1>2. CASE /\ StartProcess \/ BootStep
           /\ UNCHANGED <<update, contended, renamed, kept, calls, edits>>
  <2>1. db.bank_product \subseteq db'.bank_product
    <3>1. CASE WriteRow
      <4>1. Grows
        BY <1>1, <3>1, RowWritten DEF ConfigInv, BootInv, WriteRow
      <4> QED
        BY <1>1, <4>1 DEF Grows, TableOK, Typed, EmptyDb
    <3> QED
      BY <1>2, <3>1 DEF StartProcess, BootStep, ReadTables
  <2> QED
    BY <1>1, <1>2, <2>1, NoUpdateSteps DEF adminVars
<1>3. CASE CallStep /\ UNCHANGED <<bootVars, update, contended, renamed, edits>>
  BY <1>1, <1>3, NoUpdateSteps DEF adminVars, bootVars
<1>4. CASE Edit
  <2>1. CASE NetworkManagerEdit
    BY <1>1, <2>1, NoUpdateSteps
       DEF NetworkManagerEdit, CreateNetworkManager, UpdateNetworkManager,
           RemoveNetworkManager, Created, Changed, TableOK, Typed, EmptyDb
  <2>2. CASE IspConfigurationEdit
    BY <1>1, <2>2, NoUpdateSteps
       DEF IspConfigurationEdit, CreateIspConfiguration, UpdateIspConfiguration,
           RemoveIspConfiguration, Created, Changed, TableOK, Typed, EmptyDb
  <2>3. ASSUME NEW dto, CreateProduct(dto)
        PROVE  EffectInv' /\ AllEffect
    BY <1>1, <2>3, NoUpdateSteps DEF CreateProduct, Created, TableOK, Typed, EmptyDb
  <2>4. ASSUME NEW u \in Updates, NEW id, NEW dto, StartUpdate(u, id, dto)
        PROVE  EffectInv' /\ AllEffect
    BY <1>1, <2>4, StartEffect
  <2> QED
    BY <1>4, <2>1, <2>2, <2>3, <2>4 DEF Edit, BankProductEdit
<1>5. ASSUME NEW u \in Updates, UpdateStep(u) \/ UpdateThrows(u)
      PROVE  EffectInv' /\ AllEffect
  BY <1>1, <1>5, UpdateStepEffect
<1>6. CASE DieWithMemory
  BY <1>1, <1>6, DieEffect
<1>7. CASE UNCHANGED vars
  BY <1>1, <1>7, NoUpdateSteps DEF vars, adminVars
<1> QED
  BY <1>2, <1>3, <1>4, <1>5, <1>6, <1>7 DEF Next, Running

LEMMA InitEffect == Init => EffectInv
<1> SUFFICES ASSUME Init PROVE EffectInv
    OBVIOUS
<1>1. \A u \in Updates : update[u].pc = "idle"
  BY DEF Init, InitAdmin, IdleUpdate
<1> QED
  BY <1>1 DEF EffectInv, Rivals, EffectOn, UpdateInFlight

THEOREM EffectInvariant == Spec => []EffectInv
<1>1. ConfigInv /\ ConfigInv' /\ EffectInv /\ [Next]_vars => EffectInv'
  BY EffectStep
<1> QED
  BY ConfigurationInvariant, InitEffect, <1>1, PTL DEF Spec

(* An update alone with its product gives no currency a second rate at any *)
(* of its steps, and once it answers the product has all it was sent: for  *)
(* whatever rows and dtos there are, among them lists that name a currency *)
(* or a key twice and products that have two rates of a currency already.  *)
THEOREM UpdatesTakeEffect == Spec => UpdateTakesEffect
<1>1. ConfigInv /\ ConfigInv' /\ EffectInv /\ [Next]_vars =>
        [\A u \in Updates \ contended : TakesEffect(u)]_vars
  BY EffectStep DEF AllEffect
<1> QED
  BY ConfigurationInvariant, EffectInvariant, <1>1, PTL DEF Spec, UpdateTakesEffect
-----------------------------------------------------------------------------
(***************************************************************************)
(* Seeding heals.  Each service has goals: rows that must be there when it *)
(* is through.  While it writes, what is not there yet is still to come;   *)
(* while another writes, its tables are left alone; and a table start-up   *)
(* only counts is empty or complete, unless a death has cut its service    *)
(* off.  A goal is a table and the fields the row must have.               *)
(***************************************************************************)
Tables ==
    [globalConfig |-> {"global_configuration"}, commission |-> {"commission_tiers"},
     bank |-> {"banks"}, bankProduct |-> {"bank_product"},
     networkManager |-> {"network_manager"}, isp |-> {"isp", "isp_configuration"},
     adminUser |-> {"user", "admin_profile"}]

Counting == {"globalConfig", "commission", "networkManager", "isp", "adminUser"}

DemoId == NewId({}, "MIKROWISP")

BankRows == {[code |-> BankList[i][1], name |-> BankList[i][2]] : i \in DOMAIN BankList}

Goals(service) ==
    CASE service = "globalConfig" -> {<<"global_configuration", [key |-> k]>> : k \in GlobalConfig}
      [] service = "bank" -> {<<"banks", row>> : row \in BankRows}
      [] service = "bankProduct" ->
            UNION {{<<"bank_product", [bank |-> p.bank, name |-> p.name]>> :
                      p \in ProductsByBank[i]} : i \in DOMAIN ProductsByBank}
      [] service = "networkManager" ->
            {<<"network_manager", [name |-> name]>> : name \in DOMAIN Managers}
      [] service = "isp" -> {<<"isp_configuration", [isp_id |-> DemoId]>>}
      [] service = "adminUser" ->
            {<<"user", [email |-> "admin@admin.com", role |-> "ADMIN"]>>,
             <<"admin_profile", [user_id |-> "admin@admin.com"]>>}
      [] OTHER -> {}

WritesOf(todo) == UNION {todo[i] : i \in DOMAIN todo}

Agrees(row, fields) == \A f \in DOMAIN fields : f \in DOMAIN row /\ row[f] = fields[f]

Comes(table, fields, todo) ==
    \/ \E row \in db[table] : Agrees(row, fields)
    \/ \E w \in WritesOf(todo) : w.table = table /\ Agrees(w.row, fields)

(* The demo ISP, which gets the id its configuration foretells because it  *)
(* is the first of its table.                                              *)
Demo(row) == row.is_active /\ row.network_manager_id # NULL

DemoComes(todo) ==
    \/ \E i \in db.isp : i.id = DemoId /\ Demo(i)
    \/ /\ db.isp = {} /\ 1 \in DOMAIN todo /\ \A i \in DOMAIN todo : 1 <= i
       /\ \A w \in todo[1] : w.table = "isp" /\ w.row.name = "MIKROWISP" /\ Demo(w.row)

Covered(service, todo) ==
    /\ \A g \in Goals(service) : Comes(g[1], g[2], todo)
    /\ service = "commission" =>
          /\ db.commission_tiers \subseteq Tiers
          /\ Tiers \subseteq db.commission_tiers \cup {w.row : w \in WritesOf(todo)}
    /\ service = "isp" => DemoComes(todo)

(* What a service writes is its own.                                       *)
Aimed(service, todo) ==
    \A w \in WritesOf(todo) :
       /\ w.table \in Tables[service]
       /\ service = "globalConfig" => w.row \in {[key |-> k] : k \in GlobalConfig}
       /\ service = "commission" => w.row \in Tiers
       /\ service = "bank" => w.row \in BankRows

Exempt(service) ==
    \/ service \in cutOff \ Resumable
    \/ service = "isp" /\ "networkManager" \in cutOff
    \/ service \in {"networkManager", "isp"} /\ edits > 0

Healed(service) == Complete(db, service) \/ Exempt(service)

(* While the process is up an update may take the name of a bank product   *)
(* that start-up is there for.                                             *)
ProductsThere ==
    \A i \in DOMAIN ProductsByBank : \A product \in ProductsByBank[i] :
       HasProduct(db, product) \/ <<product.bank, product.name>> \in renamed

Stands(service) == Healed(service) \/ (Up /\ service = "bankProduct" /\ ProductsThere)

Through(i) == Up \/ (boot.pc # "down" /\ i < boot.service)

SeedInv ==
    /\ \A i \in DOMAIN Services : Through(i) => Stands(Services[i])
    /\ \A s \in Counting :
          \/ Counted(db)[s] = {} \/ Healed(s)
          \/ boot.pc = "writing" /\ Services[boot.service] = s /\ s # "globalConfig"
    /\ boot.pc = "writing" =>
          /\ Aimed(Services[boot.service], boot.todo)
          /\ Exempt(Services[boot.service]) \/ Covered(Services[boot.service], boot.todo)

ServiceNames == {Services[i] : i \in DOMAIN Services}

LEMMA ServicesDiffer ==
  /\ ServiceNames = {"globalConfig", "commission", "bank", "bankProduct",
                     "networkManager", "isp", "adminUser"}
  /\ Counting \subseteq ServiceNames /\ DOMAIN Tables = ServiceNames
  /\ DOMAIN Services = 1..7
  /\ \A i, j \in DOMAIN Services : Services[i] = Services[j] => i = j
  /\ \A r, s \in ServiceNames : r # s => Tables[r] \cap Tables[s] = {}
BY DEF ServiceNames, Services, Counting, Tables

(* What a service is there for, and what it counts, is in its tables.      *)
LEMMA OwnTables ==
  ASSUME NEW s \in ServiceNames, NEW a, NEW b, \A t \in Tables[s] : a[t] = b[t]
  PROVE  /\ Complete(a, s) => Complete(b, s)
         /\ s \in Counting => Counted(b)[s] = Counted(a)[s]
<1>1. s \in {"globalConfig", "commission", "bank", "bankProduct",
             "networkManager", "isp", "adminUser"}
  BY ServicesDiffer
<1>2. CASE s = "globalConfig"
  BY <1>2 DEF Complete, Counted, Tables
<1>3. CASE s = "commission"
  BY <1>3 DEF Complete, Counted, Tables
<1>4. CASE s = "bank"
  BY <1>4 DEF Complete, Counting, Tables
<1>5. CASE s = "bankProduct"
  BY <1>5 DEF Complete, HasProduct, Counting, Tables
<1>6. CASE s = "networkManager"
  BY <1>6 DEF Complete, Counted, Tables
<1>7. CASE s = "isp"
  BY <1>7 DEF Complete, Counted, Tables
<1>8. CASE s = "adminUser"
  BY <1>8 DEF Complete, Counted, Tables
<1> QED
  BY <1>1, <1>2, <1>3, <1>4, <1>5, <1>6, <1>7, <1>8

LEMMA CompleteNext ==
  ASSUME NEW s
  PROVE  /\ Complete(db, s)' <=> Complete(db', s)
         /\ Counted(db)'[s] = Counted(db')[s]
BY DEF Complete, HasProduct, Counted

(* One write is taken from what is left, the others stay.                  *)
LEMMA RowTaken ==
  ASSUME WriteRow
  PROVE  \E next \in DOMAIN boot.todo : \E write \in boot.todo[next] : \E rest :
            /\ \A i \in DOMAIN boot.todo : next <= i
            /\ Connects(write)
            /\ db' = IF write.table \in Numbered
                     THEN Created(db, write.table, write.row)
                     ELSE [db EXCEPT ![write.table] = (@ \ write.old) \cup {write.row}]
            /\ boot' = Onward(boot.service, rest)
            /\ WritesOf(rest) \subseteq WritesOf(boot.todo)
            /\ WritesOf(boot.todo) \subseteq WritesOf(rest) \cup {write}
<1> DEFINE todo == boot.todo
           Left(next, write) == [todo EXCEPT ![next] = @ \ {write}]
           Rest(next, write) == [i \in {j \in DOMAIN Left(next, write) : Left(next, write)[j] # {}} |->
                                    Left(next, write)[i]]
<1>1. PICK next \in DOMAIN todo : \E write \in todo[next] :
         /\ \A i \in DOMAIN todo : next <= i
         /\ Connects(write)
         /\ db' = IF write.table \in Numbered
                  THEN Created(db, write.table, write.row)
                  ELSE [db EXCEPT ![write.table] = (@ \ write.old) \cup {write.row}]
         /\ boot' = Onward(boot.service, Rest(next, write))
  BY DEF WriteRow
<1>2. PICK write \in todo[next] :
         /\ \A i \in DOMAIN todo : next <= i
         /\ Connects(write)
         /\ db' = IF write.table \in Numbered
                  THEN Created(db, write.table, write.row)
                  ELSE [db EXCEPT ![write.table] = (@ \ write.old) \cup {write.row}]
         /\ boot' = Onward(boot.service, Rest(next, write))
  BY <1>1
<1>3. PICK rest : rest = Rest(next, write)
  OBVIOUS
<1>4. /\ DOMAIN rest \subseteq DOMAIN todo
      /\ \A i \in DOMAIN rest : rest[i] \subseteq todo[i]
      /\ \A i \in DOMAIN todo : \A w \in todo[i] :
            w # write => i \in DOMAIN rest /\ w \in rest[i]
  BY <1>3
<1> HIDE DEF todo, Rest
<1>5. WritesOf(rest) \subseteq WritesOf(todo) /\ WritesOf(todo) \subseteq WritesOf(rest) \cup {write}
  BY <1>4 DEF WritesOf
<1> QED
  BY <1>2, <1>3, <1>5 DEF todo

(* What it writes is there then, under an id, and in no other table.       *)
Landed(write) ==
    /\ DOMAIN db' = DOMAIN db
    /\ \A t \in DOMAIN db \ {write.table} : db'[t] = db[t]
    /\ db[write.table] \ write.old \subseteq db'[write.table]
    /\ \E row \in db'[write.table] :
          /\ \A f \in DOMAIN write.row \ {"id"} : f \in DOMAIN row /\ row[f] = write.row[f]
          /\ write.table \in Numbered =>
                row.id = NewId(db[write.table], Label(write.table, write.row))

LEMMA RowLands ==
  ASSUME TableOK(db), NEW write, Sound(write),
         db' = IF write.table \in Numbered
               THEN Created(db, write.table, write.row)
               ELSE [db EXCEPT ![write.table] = (@ \ write.old) \cup {write.row}]
  PROVE  Landed(write)
<1>1. write.table \in DOMAIN db
  BY DEF Sound, TableOK, Typed
<1>2. CASE write.table \in Numbered
  <2> DEFINE id == NewId(db[write.table], Label(write.table, write.row))
             row == WithId(id, write.row)
  <2>1. db' = [db EXCEPT ![write.table] = @ \cup {row}]
    BY <1>2 DEF Created
  <2>2. row.id = id /\ \A f \in DOMAIN write.row \ {"id"} : f \in DOMAIN row /\ row[f] = write.row[f]
    <3> HIDE DEF id
    <3> QED
      BY DEF WithId
  <2> HIDE DEF row
  <2>3. row \in db'[write.table]
    BY <1>1, <2>1
  <2> QED
    BY <1>1, <2>1, <2>2, <2>3 DEF Landed
<1>3. CASE write.table \notin Numbered
  <2>1. db' = [db EXCEPT ![write.table] = (@ \ write.old) \cup {write.row}]
    BY <1>3
  <2>2. write.row \in db'[write.table]
    BY <1>1, <2>1
  <2> QED
    BY <1>1, <1>3, <2>1, <2>2 DEF Landed
<1> QED
  BY <1>2, <1>3

(* No two entries of the list of banks, and no two rows, have one code.    *)
LEMMA BankRowsDiffer == \A a, b \in BankRows : a.code = b.code => a = b
BY SeedingAssumption DEF BankRows

LEMMA GoalsOfTables ==
  ASSUME NEW s \in ServiceNames, NEW g \in Goals(s)
  PROVE  /\ g[1] \in Tables[s] /\ "id" \notin DOMAIN g[2]
         /\ g[1] = "banks" => g[2] \in BankRows
<1>1. s \in {"globalConfig", "commission", "bank", "bankProduct",
             "networkManager", "isp", "adminUser"}
  BY ServicesDiffer
<1>2. CASE s = "globalConfig"
  BY <1>2 DEF Goals, Tables
<1>3. CASE s = "commission"
  BY <1>3 DEF Goals, Tables
<1>4. CASE s = "bank"
  BY <1>4 DEF Goals, Tables, BankRows
<1>5. CASE s = "bankProduct"
  BY <1>5 DEF Goals, Tables
<1>6. CASE s = "networkManager"
  BY <1>6 DEF Goals, Tables
<1>7. CASE s = "isp"
  BY <1>7 DEF Goals, Tables
<1>8. CASE s = "adminUser"
  BY <1>8 DEF Goals, Tables
<1> QED
  BY <1>1, <1>2, <1>3, <1>4, <1>5, <1>6, <1>7, <1>8

(* What was there or to come is so still.                                  *)
LEMMA ComesNext ==
  ASSUME TableOK(db), Grows, NEW write, Sound(write), Landed(write),
         NEW todo, NEW rest, WritesOf(todo) \subseteq WritesOf(rest) \cup {write},
         write.table = "banks" => write.row \in BankRows,
         NEW t \in DOMAIN EmptyDb, NEW fields, "id" \notin DOMAIN fields,
         t = "banks" => fields \in BankRows, Comes(t, fields, todo)
  PROVE  Comes(t, fields, rest)'
<1>1. DOMAIN db = DOMAIN EmptyDb
  BY DEF TableOK, Typed
<1>2. ASSUME write.table = t, Agrees(write.row, fields)
      PROVE  \E row \in db'[t] : Agrees(row, fields)
  BY <1>2 DEF Landed, Agrees
<1>3. ASSUME NEW row \in db[t], Agrees(row, fields)
      PROVE  \E r \in db'[t] : Agrees(r, fields)
  <2>1. CASE t # "banks" \/ write.table # "banks"
    BY <1>1, <1>3, <2>1 DEF Grows, Landed
  <2>2. CASE t = "banks" /\ write.table = "banks"
    <3>1. CASE row \in write.old
      <4>1. row.code = write.row.code /\ row.code = fields.code
        BY <1>3, <2>2, <3>1 DEF Sound, Agrees, BankRows
      <4>2. fields = write.row
        BY <2>2, <4>1, BankRowsDiffer
      <4> QED
        BY <1>2, <2>2, <4>2 DEF Agrees
    <3>2. CASE row \notin write.old
      BY <1>1, <1>3, <2>2, <3>2 DEF Landed
    <3> QED
      BY <3>1, <3>2
  <2> QED
    BY <2>1, <2>2
<1>4. ASSUME NEW w \in WritesOf(todo), w.table = t, Agrees(w.row, fields)
      PROVE  \/ \E r \in db'[t] : Agrees(r, fields)
             \/ \E v \in WritesOf(rest) : v.table = t /\ Agrees(v.row, fields)
  BY <1>2, <1>4
<1> QED
  BY <1>3, <1>4 DEF Comes

(* The demo ISP is the first that is inserted, under the id foretold.      *)
LEMMA DemoNext ==
  ASSUME TableOK(db), Grows, NEW todo, DOMAIN todo \subseteq Nat,
         NEW next \in DOMAIN todo, \A i \in DOMAIN todo : next <= i,
         NEW write \in todo[next], Sound(write), Landed(write), DemoComes(todo), NEW rest
  PROVE  DemoComes(rest)'
<1>1. "isp" \in DOMAIN db
  BY DEF TableOK, Typed, EmptyDb
<1>2. CASE \E i \in db.isp : i.id = DemoId /\ Demo(i)
  BY <1>1, <1>2 DEF Grows, DemoComes, Demo
<1>3. CASE /\ db.isp = {} /\ 1 \in DOMAIN todo /\ \A i \in DOMAIN todo : 1 <= i
           /\ \A w \in todo[1] : w.table = "isp" /\ w.row.name = "MIKROWISP" /\ Demo(w.row)
  <2>1. next = 1
    BY <1>3
  <2>2. write.table = "isp" /\ write.row.name = "MIKROWISP" /\ Demo(write.row)
    BY <1>3, <2>1
  <2>3. write.row \in NewIsp
    BY <2>2 DEF Sound
  <2>4. {"is_active", "network_manager_id"} \subseteq DOMAIN write.row
    BY <2>3 DEF NewIsp
  <2>5. PICK row \in db'.isp :
           /\ \A f \in DOMAIN write.row \ {"id"} : f \in DOMAIN row /\ row[f] = write.row[f]
           /\ row.id = NewId(db.isp, Label("isp", write.row))
    BY <2>2 DEF Landed, Numbered
  <2>6. row.id = DemoId
    BY <1>3, <2>2, <2>5 DEF Label, DemoId
  <2>7. Demo(row)
    BY <2>2, <2>4, <2>5 DEF Demo
  <2> QED
    BY <2>6, <2>7 DEF DemoComes
<1> QED
  BY <1>2, <1>3 DEF DemoComes

(* A service that has nothing left to write has all it is there for.       *)
CoveredDone == TableOK(db) => \A s \in ServiceNames : Covered(s, <<>>) => Complete(db, s)

LEMMA CoveredIsDone == CoveredDone
<1> SUFFICES ASSUME TableOK(db), NEW s \in ServiceNames, Covered(s, <<>>)
             PROVE  Complete(db, s)
    BY DEF CoveredDone
<1>1. s \in {"globalConfig", "commission", "bank", "bankProduct",
             "networkManager", "isp", "adminUser"}
  BY ServicesDiffer
<1>2. WritesOf(<<>>) = {}
  BY DEF WritesOf
<1>3. ASSUME NEW g \in Goals(s) PROVE \E row \in db[g[1]] : Agrees(row, g[2])
  BY <1>2 DEF Covered, Comes
<1>4. CASE s = "globalConfig"
  <2>1. ASSUME NEW k \in GlobalConfig PROVE \E r \in db.global_configuration : r.key = k
    <3>1. <<"global_configuration", [key |-> k]>> \in Goals(s)
      BY <1>4 DEF Goals
    <3> QED
      BY <1>3, <3>1 DEF Agrees
  <2> QED
    BY <1>4, <2>1 DEF Complete
<1>5. CASE s = "commission"
  <2>1. {w.row : w \in WritesOf(<<>>)} = {}
    BY <1>2
  <2>2. db.commission_tiers \subseteq Tiers /\ Tiers \subseteq db.commission_tiers \cup {}
    BY <1>5, <2>1 DEF Covered
  <2>3. db.commission_tiers = Tiers
    BY <2>2
  <2> QED
    BY <1>5, <2>3 DEF Complete
<1>6. CASE s = "bank"
  <2>1. ASSUME NEW row \in BankRows PROVE row \in db.banks
    <3>1. <<"banks", row>> \in Goals(s)
      BY <1>6, <2>1 DEF Goals
    <3>2. PICK b \in db.banks : Agrees(b, row)
      BY <1>3, <3>1
    <3>3. b \in Bank
      BY DEF TableOK, Typed
    <3>4. row = [code |-> b.code, name |-> b.name]
      BY <2>1, <3>2 DEF BankRows, Agrees
    <3> QED
      BY <3>3, <3>4 DEF Bank
  <2> QED
    BY <1>6, <2>1 DEF Complete, BankRows
<1>7. CASE s = "bankProduct"
  <2>1. ASSUME NEW i \in DOMAIN ProductsByBank, NEW p \in ProductsByBank[i]
        PROVE  \E q \in db.bank_product : q.bank = p.bank /\ q.name = p.name
    <3>1. <<"bank_product", [bank |-> p.bank, name |-> p.name]>> \in Goals(s)
      BY <1>7 DEF Goals
    <3> QED
      BY <1>3, <3>1 DEF Agrees
  <2> QED
    BY <1>7, <2>1 DEF Complete, HasProduct
<1>8. CASE s = "networkManager"
  <2>1. ASSUME NEW name \in DOMAIN Managers PROVE \E m \in db.network_manager : m.name = name
    <3>1. <<"network_manager", [name |-> name]>> \in Goals(s)
      BY <1>8 DEF Goals
    <3> QED
      BY <1>3, <3>1 DEF Agrees
  <2> QED
    BY <1>8, <2>1 DEF Complete
<1>9. CASE s = "isp"
  <2>1. PICK i \in db.isp : i.id = DemoId /\ Demo(i)
    BY <1>9 DEF Covered, DemoComes
  <2>2. <<"isp_configuration", [isp_id |-> DemoId]>> \in Goals(s)
    BY <1>9 DEF Goals
  <2>3. PICK c \in db.isp_configuration : c.isp_id = DemoId
    BY <1>3, <2>2 DEF Agrees
  <2> QED
    BY <1>9, <2>1, <2>3 DEF Complete, Demo
<1>10. CASE s = "adminUser"
  <2>1. /\ <<"user", [email |-> "admin@admin.com", role |-> "ADMIN"]>> \in Goals(s)
        /\ <<"admin_profile", [user_id |-> "admin@admin.com"]>> \in Goals(s)
    BY <1>10 DEF Goals
  <2>2. PICK u \in db.user : u.email = "admin@admin.com" /\ u.role = "ADMIN"
    BY <1>3, <2>1 DEF Agrees
  <2>3. PICK p \in db.admin_profile : p.user_id = "admin@admin.com"
    BY <1>3, <2>1 DEF Agrees
  <2> QED
    BY <1>10, <2>2, <2>3 DEF Complete
<1> QED
  BY <1>1, <1>4, <1>5, <1>6, <1>7, <1>8, <1>9, <1>10

LEMMA CoveredIsDoneNext == CoveredDone'
BY CoveredIsDone, PTL

(* What a service plans: all that is missing, or nothing when nothing is.  *)
Planned(service, todo) ==
    /\ Aimed(service, todo)
    /\ \/ Exempt(service)
       \/ todo = <<>> /\ Complete(db, service)
       \/ Covered(service, todo)

LEMMA NothingPlanned ==
  ASSUME NEW s, Healed(s) PROVE Planned(s, <<>>)
<1>1. WritesOf(<<>>) = {}
  BY DEF WritesOf
<1> QED
  BY <1>1 DEF Planned, Aimed, Healed

LEMMA OneBatch ==
  ASSUME NEW batch PROVE WritesOf(<<batch>>) = batch
BY DEF WritesOf

(* The services that count the rows of a table, then write all in one.     *)
LEMMA CountingPlans ==
  /\ db.global_configuration = {} => Planned("globalConfig", Plan("globalConfig"))
  /\ db.commission_tiers = {} => Planned("commission", Plan("commission"))
  /\ db.network_manager = {} => Planned("networkManager", Plan("networkManager"))
<1>1. ASSUME db.global_configuration = {} PROVE Planned("globalConfig", Plan("globalConfig"))
  <2> DEFINE batch == {Insert("global_configuration", [key |-> key]) : key \in GlobalConfig}
  <2>1. Plan("globalConfig") = <<batch>> /\ WritesOf(<<batch>>) = batch
    BY <1>1, OneBatch DEF Plan, GlobalConfigPlan
  <2>2. Aimed("globalConfig", <<batch>>)
    BY <2>1 DEF Aimed, Insert, Tables
  <2>3. ASSUME NEW g \in Goals("globalConfig") PROVE Comes(g[1], g[2], <<batch>>)
    <3>1. PICK k \in GlobalConfig : g = <<"global_configuration", [key |-> k]>>
      BY DEF Goals
    <3>2. Insert("global_configuration", [key |-> k]) \in batch
      OBVIOUS
    <3> HIDE DEF batch
    <3> QED
      BY <2>1, <3>1, <3>2 DEF Comes, Agrees, Insert
  <2> QED
    BY <2>1, <2>2, <2>3 DEF Planned, Covered
<1>2. ASSUME db.commission_tiers = {} PROVE Planned("commission", Plan("commission"))
  <2> DEFINE batch == {Insert("commission_tiers", tier) : tier \in Tiers}
  <2>1. Plan("commission") = <<batch>> /\ WritesOf(<<batch>>) = batch
    BY <1>2, OneBatch DEF Plan, CommissionPlan
  <2>2. Aimed("commission", <<batch>>)
    BY <2>1 DEF Aimed, Insert, Tables
  <2>3. ASSUME NEW tier \in Tiers PROVE tier \in {w.row : w \in batch}
    <3>1. Insert("commission_tiers", tier) \in batch /\ Insert("commission_tiers", tier).row = tier
      BY DEF Insert
    <3> HIDE DEF batch
    <3> QED
      BY <3>1
  <2>4. Goals("commission") = {}
    BY DEF Goals
  <2> HIDE DEF batch
  <2>5. db.commission_tiers \subseteq Tiers /\ Tiers \subseteq db.commission_tiers \cup {w.row : w \in batch}
    BY <1>2, <2>3
  <2>6. Covered("commission", <<batch>>)
    BY <2>1, <2>4, <2>5 DEF Covered
  <2> QED
    BY <2>1, <2>2, <2>6 DEF Planned
<1>3. ASSUME db.network_manager = {} PROVE Planned("networkManager", Plan("networkManager"))
  <2> DEFINE batch == {Insert("network_manager", ManagerRow(name)) : name \in DOMAIN Managers}
  <2>1. Plan("networkManager") = <<batch>> /\ WritesOf(<<batch>>) = batch
    BY <1>3, OneBatch DEF Plan, NetworkManagerPlan
  <2>2. Aimed("networkManager", <<batch>>)
    BY <2>1 DEF Aimed, Insert, Tables
  <2>3. ASSUME NEW g \in Goals("networkManager") PROVE Comes(g[1], g[2], <<batch>>)
    <3>1. PICK name \in DOMAIN Managers : g = <<"network_manager", [name |-> name]>>
      BY DEF Goals
    <3>2. Insert("network_manager", ManagerRow(name)) \in batch
      OBVIOUS
    <3> HIDE DEF batch
    <3> QED
      BY <2>1, <3>1, <3>2 DEF Comes, Agrees, Insert, ManagerRow
  <2> QED
    BY <2>1, <2>2, <2>3 DEF Planned, Covered
<1> QED
  BY <1>1, <1>2, <1>3

(* The bank and product services, which look for each row.                 *)
LEMMA BanksPlanned == Planned("bank", Plan("bank"))
<1> DEFINE todo == BankPlan
           Existing(code) == {b \in db.banks : b.code = code}
           Row(i) == [code |-> BankList[i][1], name |-> BankList[i][2]]
           Write(i) == [table |-> "banks", row |-> Row(i), old |-> Existing(BankList[i][1])]
<1>1. /\ DOMAIN todo = {i \in DOMAIN BankList : Existing(BankList[i][1]) # {Row(i)}}
      /\ \A i \in DOMAIN todo : todo[i] = {Write(i)}
  BY DEF BankPlan
<1>2. Plan("bank") = todo
  BY DEF Plan
<1> HIDE DEF todo
<1>3. Aimed("bank", todo)
  BY <1>1 DEF Aimed, WritesOf, Tables, BankRows
<1>4. ASSUME NEW g \in Goals("bank") PROVE Comes(g[1], g[2], todo)
  <2>1. PICK i \in DOMAIN BankList : g = <<"banks", Row(i)>>
    BY DEF Goals, BankRows
  <2>2. CASE i \in DOMAIN todo
    <3>1. Write(i) \in WritesOf(todo)
      BY <1>1, <2>2 DEF WritesOf
    <3> QED
      BY <2>1, <3>1 DEF Comes, Agrees
  <2>3. CASE i \notin DOMAIN todo
    <3>1. Row(i) \in db.banks
      BY <1>1, <2>3
    <3> QED
      BY <2>1, <3>1 DEF Comes, Agrees
  <2> QED
    BY <2>2, <2>3
<1> QED
  BY <1>2, <1>3, <1>4 DEF Planned, Covered

LEMMA ProductsPlanned ==
  ASSUME TableOK(db) PROVE Planned("bankProduct", Plan("bankProduct"))
<1> DEFINE todo == BankProductPlan
           There(p) == \E q \in db.bank_product : q.bank = p.bank /\ q.name = p.name
           Missing(i) == {p \in ProductsByBank[i] : ~There(p)}
           Write(p) == Insert("bank_product", ProductRow(p))
<1>1. /\ DOMAIN todo = {i \in DOMAIN ProductsByBank : Missing(i) # {}}
      /\ \A i \in DOMAIN todo : todo[i] = {Write(p) : p \in Missing(i)}
  BY DEF BankProductPlan
<1>2. Plan("bankProduct") = todo
  BY DEF Plan
<1>3. \A p : /\ Write(p).table = "bank_product"
             /\ Agrees(Write(p).row, [bank |-> p.bank, name |-> p.name])
  BY DEF Insert, ProductRow, Agrees
<1> HIDE DEF todo, Write
<1>4. Aimed("bankProduct", todo)
  BY <1>1, <1>3 DEF Aimed, WritesOf, Tables
<1>5. ASSUME NEW g \in Goals("bankProduct") PROVE Comes(g[1], g[2], todo)
  <2>4. PICK i \in DOMAIN ProductsByBank : \E p \in ProductsByBank[i] :
           g = <<"bank_product", [bank |-> p.bank, name |-> p.name]>>
    BY DEF Goals
  <2>1. PICK p \in ProductsByBank[i] :
           g = <<"bank_product", [bank |-> p.bank, name |-> p.name]>>
    BY <2>4
  <2>2. CASE There(p)
    <3>1. PICK q \in db.bank_product : q.bank = p.bank /\ q.name = p.name
      BY <2>2
    <3>2. q \in BankProduct
      BY DEF TableOK, Typed
    <3> QED
      BY <2>1, <3>1, <3>2 DEF Comes, Agrees, BankProduct
  <2>3. CASE ~There(p)
    <3>1. Write(p) \in WritesOf(todo)
      BY <1>1, <2>3 DEF WritesOf
    <3> QED
      BY <1>3, <2>1, <3>1 DEF Comes
  <2> QED
    BY <2>2, <2>3
<1> QED
  BY <1>2, <1>4, <1>5 DEF Planned, Covered

(* The ISPs wait for the managers: without MikroWISP there is no demo ISP. *)
LEMMA IspsPlanned ==
  ASSUME TableOK(db), Healed("networkManager"), db.isp = {}
  PROVE  Planned("isp", Plan("isp"))
<1>1. CASE ManagersNamed("MIKROWISP") = {}
  <2>1. Plan("isp") = <<>>
    BY <1>1 DEF Plan, IspPlan
  <2>2. ~Complete(db, "networkManager")
    BY <1>1, SeedingAssumption DEF Complete, ManagersNamed
  <2>3. Exempt("isp")
    BY <2>2 DEF Healed, Exempt
  <2> QED
    BY <2>1, <2>3, NothingPlanned DEF Healed
<1>2. CASE ManagersNamed("MIKROWISP") # {}
  <2> DEFINE config == [isp_id |-> NewId(db.isp, "MIKROWISP"),
                        instance_token |-> encrypt(Plain("demo"))]
             First == {Insert("isp", IspOf(m, TRUE)) : m \in ManagersNamed("MIKROWISP")}
             Second == {Insert("isp_configuration", config)}
             Third == {Insert("isp", IspOf(m, FALSE)) : m \in ManagersNamed("WISPHUB")}
             todo == IspPlan
  <2>1. todo = <<First, Second>> \/ todo = <<First, Second, Third>>
    BY <1>2 DEF IspPlan
  <2>2. Plan("isp") = todo
    BY DEF Plan
  <2>3. ASSUME NEW w \in First
        PROVE  w.table = "isp" /\ w.row.name = "MIKROWISP" /\ Demo(w.row)
    <3>1. PICK m \in ManagersNamed("MIKROWISP") : w = Insert("isp", IspOf(m, TRUE))
      OBVIOUS
    <3>2. m \in NetworkManager /\ m.name = "MIKROWISP"
      BY DEF ManagersNamed, TableOK, Typed
    <3>3. m.id # NULL
      BY <3>2 DEF NetworkManager, NULL
    <3> QED
      BY <3>1, <3>2, <3>3 DEF Insert, IspOf, Demo
  <2>4. ASSUME NEW w \in Third PROVE w.table = "isp"
    <3>1. PICK m \in ManagersNamed("WISPHUB") : w = Insert("isp", IspOf(m, FALSE))
      OBVIOUS
    <3> QED
      BY <3>1 DEF Insert
  <2>5. \A w \in Second : w.table = "isp_configuration" /\ w.row = config
    BY DEF Insert
  <2>6. Second # {} /\ config.isp_id = DemoId
    BY DEF DemoId
  <2> HIDE DEF First, Second, Third, todo, config
  <2>7. /\ {1, 2} \subseteq DOMAIN todo /\ \A i \in DOMAIN todo : 1 <= i
        /\ todo[1] = First /\ todo[2] = Second
        /\ \A i \in DOMAIN todo \ {1, 2} : todo[i] = Third
    BY <2>1
  <2>8. Aimed("isp", todo)
    BY <2>3, <2>4, <2>5, <2>7 DEF Aimed, WritesOf, Tables
  <2>9. DemoComes(todo)
    BY <2>3, <2>7 DEF DemoComes
  <2>10. Comes("isp_configuration", [isp_id |-> DemoId], todo)
    <3>1. PICK w \in Second : w \in WritesOf(todo)
      BY <2>6, <2>7 DEF WritesOf
    <3>2. w.table = "isp_configuration" /\ w.row.isp_id = DemoId /\ "isp_id" \in DOMAIN w.row
      BY <2>5, <2>6 DEF config
    <3> QED
      BY <3>1, <3>2 DEF Comes, Agrees
  <2>11. Goals("isp") = {<<"isp_configuration", [isp_id |-> DemoId]>>}
    BY DEF Goals
  <2> QED
    BY <2>2, <2>8, <2>9, <2>10, <2>11 DEF Planned, Covered
<1> QED
  BY <1>1, <1>2

LEMMA AdminPlanned ==
  ASSUME \A u \in db.user : u.role # "ADMIN"
  PROVE  Planned("adminUser", Plan("adminUser"))
<1> DEFINE user == Insert("user", [email |-> "admin@admin.com", role |-> "ADMIN"])
           profile == Insert("admin_profile", [user_id |-> "admin@admin.com"])
           todo == <<{user}, {profile}>>
<1>1. Plan("adminUser") = todo
  BY DEF Plan, AdminUserPlan
<1>2. WritesOf(todo) = {user, profile}
  <2>1. DOMAIN todo = {1, 2} /\ todo[1] = {user} /\ todo[2] = {profile}
    OBVIOUS
  <2> HIDE DEF user, profile, todo
  <2> QED
    BY <2>1 DEF WritesOf
<1>3. /\ user.table = "user" /\ Agrees(user.row, [email |-> "admin@admin.com", role |-> "ADMIN"])
      /\ profile.table = "admin_profile" /\ Agrees(profile.row, [user_id |-> "admin@admin.com"])
  BY DEF Insert, Agrees
<1> HIDE DEF user, profile, todo
<1>4. Aimed("adminUser", todo)
  BY <1>2, <1>3 DEF Aimed, Tables
<1>5. ASSUME NEW g \in Goals("adminUser") PROVE Comes(g[1], g[2], todo)
  BY <1>2, <1>3 DEF Goals, Comes
<1> QED
  BY <1>1, <1>4, <1>5 DEF Planned, Covered

LEMMA PlanCovers ==
  ASSUME TableOK(db), SeedInv, boot.pc = "reading", boot.service \in DOMAIN Services
  PROVE  LET s == Services[boot.service] IN Planned(s, Plan(s))
<1> DEFINE s == Services[boot.service]
<1>1. s \in {"globalConfig", "commission", "bank", "bankProduct",
             "networkManager", "isp", "adminUser"}
  BY ServicesDiffer DEF ServiceNames
<1>2. s \in Counting => Counted(db)[s] = {} \/ Healed(s)
  BY DEF SeedInv
<1>3. CASE s = "globalConfig"
  <2>1. db.global_configuration = {} \/ Healed(s)
    BY <1>2, <1>3 DEF Counting, Counted
  <2>2. db.global_configuration # {} => Plan(s) = <<>>
    BY <1>3 DEF Plan, GlobalConfigPlan
  <2> QED
    BY <1>3, <2>1, <2>2, CountingPlans, NothingPlanned
<1>4. CASE s = "commission"
  <2>1. db.commission_tiers = {} \/ Healed(s)
    BY <1>2, <1>4 DEF Counting, Counted
  <2>2. db.commission_tiers # {} => Plan(s) = <<>>
    BY <1>4 DEF Plan, CommissionPlan
  <2> QED
    BY <1>4, <2>1, <2>2, CountingPlans, NothingPlanned
<1>5. CASE s = "networkManager"
  <2>1. db.network_manager = {} \/ Healed(s)
    BY <1>2, <1>5 DEF Counting, Counted
  <2>2. db.network_manager # {} => Plan(s) = <<>>
    BY <1>5 DEF Plan, NetworkManagerPlan
  <2> QED
    BY <1>5, <2>1, <2>2, CountingPlans, NothingPlanned
<1>6. CASE s = "isp"
  <2>1. db.isp = {} \/ Healed(s)
    BY <1>2, <1>6 DEF Counting, Counted
  <2>2. db.isp # {} => Plan(s) = <<>>
    BY <1>6 DEF Plan, IspPlan
  <2>3. Healed("networkManager")
    <3>1. boot.service = 6 /\ 5 \in DOMAIN Services /\ Services[5] = "networkManager"
      BY <1>6 DEF Services
    <3>2. Through(5)
      BY <3>1 DEF Through
    <3>3. Stands(Services[5])
      BY <3>1, <3>2 DEF SeedInv
    <3> QED
      BY <3>1, <3>3 DEF Stands
  <2> QED
    BY <1>6, <2>1, <2>2, <2>3, IspsPlanned, NothingPlanned
<1>7. CASE s = "adminUser"
  <2>1. {u \in db.user : u.role = "ADMIN"} = {} \/ Healed(s)
    BY <1>2, <1>7 DEF Counting, Counted
  <2>2. (\E u \in db.user : u.role = "ADMIN") => Plan(s) = <<>>
    BY <1>7 DEF Plan, AdminUserPlan
  <2> QED
    BY <1>7, <2>1, <2>2, AdminPlanned, NothingPlanned
<1> QED
  BY <1>1, <1>3, <1>4, <1>5, <1>6, <1>7, BanksPlanned, ProductsPlanned

(* The invariant of the next state, part by part.                          *)
LEMMA SeedNext ==
  ASSUME NEW pc, NEW n, NEW todo, boot'.pc = pc, boot'.service = n,
         pc = "writing" => boot'.todo = todo,
         \A i \in DOMAIN Services : pc = "up" \/ (pc # "down" /\ i < n) => Stands(Services[i])',
         \A s \in Counting :
            \/ Counted(db')[s] = {} \/ Healed(s)'
            \/ pc = "writing" /\ Services[n] = s /\ s # "globalConfig",
         pc = "writing" =>
            Aimed(Services[n], todo) /\ (Exempt(Services[n])' \/ Covered(Services[n], todo)')
  PROVE  SeedInv'
<1>1. \A i \in DOMAIN Services : Through(i)' => Stands(Services[i])'
  BY DEF Through, Up
<1>2. \A s \in Counting :
         \/ Counted(db)'[s] = {} \/ Healed(s)'
         \/ boot'.pc = "writing" /\ Services[boot'.service] = s /\ s # "globalConfig"
  BY CompleteNext
<1>3. boot'.pc = "writing" =>
         Aimed(Services[boot.service], boot.todo)'
         /\ (Exempt(Services[boot.service])' \/ Covered(Services[boot.service], boot.todo)')
  <2> SUFFICES ASSUME boot'.pc = "writing"
               PROVE  /\ Aimed(Services[boot.service], boot.todo)'
                      /\ Exempt(Services[boot.service])' \/ Covered(Services[boot.service], boot.todo)'
      OBVIOUS
  <2>1. Aimed(Services[boot.service], boot.todo)'
    BY DEF Aimed, WritesOf
  <2>2. Exempt(Services[n])' => Exempt(Services[boot.service])'
    BY DEF Exempt
  <2>3. Covered(Services[n], todo)' => Covered(Services[boot.service], boot.todo)'
    BY DEF Covered, Comes, DemoComes, WritesOf
  <2> QED
    BY <2>1, <2>2, <2>3
<1> QED
  BY <1>1, <1>2, <1>3 DEF SeedInv

LEMMA HealedStays ==
  ASSUME NEW s, Healed(s), cutOff \subseteq cutOff', edits > 0 => edits' > 0,
         Complete(db, s) => Complete(db', s)
  PROVE  Healed(s)'
BY CompleteNext DEF Healed, Exempt

LEMMA CoveredStays ==
  ASSUME db' = db, NEW s, NEW todo, Covered(s, todo) PROVE Covered(s, todo)'
BY DEF Covered, Comes, DemoComes

(* A step that leaves the tables, start-up and its history alone.          *)
LEMMA SeedFrame ==
  ASSUME SeedInv, db' = db, boot' = boot, cutOff' = cutOff, edits > 0 => edits' > 0,
         renamed' = renamed
  PROVE  SeedInv'
<1>1. PICK pc, n, todo : pc = boot.pc /\ n = boot.service /\ todo = boot.todo
  OBVIOUS
<1>2. \A s : Healed(s) => Healed(s)'
  BY HealedStays
<1>3. \A s : Exempt(s) => Exempt(s)'
  BY DEF Exempt
<1>4. \A s : Covered(s, todo) => Covered(s, todo)'
  BY CoveredStays
<1>5. \A i \in DOMAIN Services : pc = "up" \/ (pc # "down" /\ i < n) => Stands(Services[i])'
  <2>1. ProductsThere => ProductsThere'
    BY DEF ProductsThere, HasProduct
  <2>2. \A s : Stands(s) => Stands(s)'
    BY <1>2, <2>1 DEF Stands, Up
  <2> QED
    BY <1>1, <2>2 DEF SeedInv, Through, Up
<1>6. \A s \in Counting :
         \/ Counted(db')[s] = {} \/ Healed(s)'
         \/ pc = "writing" /\ Services[n] = s /\ s # "globalConfig"
  BY <1>1, <1>2 DEF SeedInv
<1>7. pc = "writing" =>
         Aimed(Services[n], todo) /\ (Exempt(Services[n])' \/ Covered(Services[n], todo)')
  BY <1>1, <1>3, <1>4 DEF SeedInv
<1> QED
  BY <1>1, <1>5, <1>6, <1>7, SeedNext

(* Start-up begins, or the process dies: of what it was writing a table    *)
(* that is counted may have some rows, and is exempt from then on.         *)
LEMMA SeedStart ==
  ASSUME SeedInv, StartProcess, edits' = edits PROVE SeedInv'
<1>1. /\ db' = db /\ cutOff' = cutOff /\ boot.pc = "down"
      /\ boot'.pc = "reading" /\ boot'.service = 1
  BY DEF StartProcess, Down
<1>2. \A s : Healed(s) => Healed(s)'
  BY <1>1, HealedStays
<1>3. \A i \in DOMAIN Services : ~ (i < 1)
  BY ServicesDiffer
<1>4. \A s \in Counting : Counted(db')[s] = {} \/ Healed(s)'
  BY <1>1, <1>2 DEF SeedInv
<1> QED
  BY <1>1, <1>3, <1>4, SeedNext

LEMMA SeedDie ==
  ASSUME SeedInv, BootInv, Die, edits' = edits PROVE SeedInv'
<1>1. /\ db' = db /\ boot'.pc = "down" /\ boot'.service = 1
      /\ cutOff' = IF boot.pc = "writing" THEN cutOff \cup {Services[boot.service]} ELSE cutOff
  BY DEF Die, Down
<1>2. \A s : Healed(s) => Healed(s)'
  BY <1>1, HealedStays
<1>3. ASSUME NEW s \in Counting PROVE Counted(db')[s] = {} \/ Healed(s)'
  <2>1. CASE boot.pc = "writing" /\ Services[boot.service] = s /\ s # "globalConfig"
    <3>1. s \in cutOff' \ Resumable
      BY <1>1, <2>1 DEF Counting, Resumable
    <3> QED
      BY <3>1 DEF Healed, Exempt
  <2> QED
    BY <1>1, <1>2, <2>1 DEF SeedInv
<1> QED
  BY <1>1, <1>3, SeedNext

(* What comes after the service that has just been through.                *)
LEMMA OnwardFrom ==
  ASSUME NEW n \in DOMAIN Services, NEW todo, boot' = Onward(n, todo)
  PROVE  \/ todo # <<>> /\ boot'.pc = "writing" /\ boot'.service = n /\ boot'.todo = todo
         \/ /\ todo = <<>> /\ boot'.pc \in {"reading", "up"}
            /\ \A i \in DOMAIN Services :
                  boot'.pc = "up" \/ i < boot'.service => i = n \/ i < n
<1>1. n \in 1..7 /\ Len(Services) = 7
  BY ServicesDiffer DEF Services
<1> QED
  BY <1>1, ServicesDiffer DEF Onward

LEMMA SeedRead ==
  ASSUME TableOK(db), BootInv, SeedInv, ReadTables, edits' = edits PROVE SeedInv'
<1>1. PICK n, s, todo : n = boot.service /\ s = Services[n] /\ todo = Plan(s)
  OBVIOUS
<1>2. /\ db' = db /\ cutOff' = cutOff /\ boot.pc = "reading"
      /\ boot' = Onward(n, todo) /\ n \in DOMAIN Services
  BY <1>1 DEF ReadTables, BootInv
<1>3. Planned(s, todo)
  BY <1>1, <1>2, PlanCovers
<1>4. \A r : Healed(r) => Healed(r)'
  BY <1>2, HealedStays
<1>5. \A r \in Counting : Counted(db')[r] = {} \/ Healed(r)'
  BY <1>2, <1>4 DEF SeedInv
<1>6. \A i \in DOMAIN Services : i < n => Healed(Services[i])'
  BY <1>1, <1>2, <1>4 DEF SeedInv, Through, Stands, Up
<1>7. CASE todo # <<>>
  <2>1. boot'.pc = "writing" /\ boot'.service = n /\ boot'.todo = todo
    BY <1>2, <1>7, OnwardFrom
  <2>2. Aimed(s, todo) /\ (Exempt(s)' \/ Covered(s, todo)')
    <3>1. Exempt(s) => Exempt(s)'
      BY <1>2 DEF Exempt
    <3>2. Covered(s, todo) => Covered(s, todo)'
      BY <1>2, CoveredStays
    <3> QED
      BY <1>3, <1>7, <3>1, <3>2 DEF Planned
  <2> QED
    BY <1>1, <1>5, <1>6, <2>1, <2>2, SeedNext DEF Stands
<1>8. CASE todo = <<>>
  <2>1. Healed(s)
    <3>1. s \in ServiceNames
      BY <1>1, <1>2 DEF ServiceNames
    <3>2. Covered(s, <<>>) => Complete(db, s)
      BY <3>1, CoveredIsDone DEF CoveredDone
    <3> QED
      BY <1>3, <1>8, <3>2 DEF Planned, Healed
  <2>2. /\ boot'.pc \in {"reading", "up"}
        /\ \A i \in DOMAIN Services : boot'.pc = "up" \/ i < boot'.service => i = n \/ i < n
    BY <1>2, <1>8, OnwardFrom
  <2>3. \A i \in DOMAIN Services : boot'.pc = "up" \/ i < boot'.service => Stands(Services[i])'
    BY <1>1, <1>4, <1>6, <2>1, <2>2 DEF Stands
  <2>4. PICK pc, m : pc = boot'.pc /\ m = boot'.service
    OBVIOUS
  <2> QED
    BY <1>5, <2>2, <2>3, <2>4, SeedNext
<1> QED
  BY <1>7, <1>8

(* A write: its service has the tables to itself.                          *)
LEMMA SeedWrite ==
  ASSUME TableOK(db), TableOK(db)', BootInv, SeedInv, WriteRow, edits' = edits PROVE SeedInv'
<1>1. PICK n, s, todo : n = boot.service /\ s = Services[n] /\ todo = boot.todo
  OBVIOUS
<1>2. /\ boot.pc = "writing" /\ cutOff' = cutOff /\ n \in DOMAIN Services /\ s \in ServiceNames
      /\ TodoOK(todo) /\ Grows
  BY <1>1, RowWritten DEF WriteRow, BootInv, ServiceNames
<1>3. PICK next \in DOMAIN todo : \E write \in todo[next] : \E rest :
         /\ \A i \in DOMAIN todo : next <= i
         /\ db' = IF write.table \in Numbered
                  THEN Created(db, write.table, write.row)
                  ELSE [db EXCEPT ![write.table] = (@ \ write.old) \cup {write.row}]
         /\ boot' = Onward(n, rest)
         /\ WritesOf(rest) \subseteq WritesOf(todo)
         /\ WritesOf(todo) \subseteq WritesOf(rest) \cup {write}
  BY <1>1, RowTaken
<1>4. PICK write \in todo[next] : \E rest :
         /\ \A i \in DOMAIN todo : next <= i
         /\ db' = IF write.table \in Numbered
                  THEN Created(db, write.table, write.row)
                  ELSE [db EXCEPT ![write.table] = (@ \ write.old) \cup {write.row}]
         /\ boot' = Onward(n, rest)
         /\ WritesOf(rest) \subseteq WritesOf(todo)
         /\ WritesOf(todo) \subseteq WritesOf(rest) \cup {write}
  BY <1>3
<1>5. PICK rest :
         /\ \A i \in DOMAIN todo : next <= i
         /\ db' = IF write.table \in Numbered
                  THEN Created(db, write.table, write.row)
                  ELSE [db EXCEPT ![write.table] = (@ \ write.old) \cup {write.row}]
         /\ boot' = Onward(n, rest)
         /\ WritesOf(rest) \subseteq WritesOf(todo)
         /\ WritesOf(todo) \subseteq WritesOf(rest) \cup {write}
  BY <1>4
<1>6. Sound(write) /\ write \in WritesOf(todo) /\ DOMAIN todo \subseteq Nat
  BY <1>2 DEF TodoOK, WritesOf
<1>7. Landed(write)
  BY <1>5, <1>6, RowLands
<1>8. Aimed(s, todo) /\ (Exempt(s) \/ Covered(s, todo))
  BY <1>1, <1>2 DEF SeedInv
<1>9. /\ write.table \in Tables[s]
      /\ s = "globalConfig" => write.row \in {[key |-> k] : k \in GlobalConfig}
      /\ s = "commission" => write.row \in Tiers
      /\ s = "bank" => write.row \in BankRows
  BY <1>6, <1>8 DEF Aimed
<1>10. Aimed(s, rest)
  BY <1>5, <1>8 DEF Aimed
<1>11. Exempt(s)' \/ Covered(s, rest)'
  <2>1. Exempt(s) => Exempt(s)'
    BY <1>2 DEF Exempt
  <2>2. ASSUME Covered(s, todo) PROVE Covered(s, rest)'
    <3>1. ASSUME NEW g \in Goals(s) PROVE Comes(g[1], g[2], rest)'
      <4>1. /\ g[1] \in Tables[s] /\ "id" \notin DOMAIN g[2]
            /\ g[1] = "banks" => g[2] \in BankRows
        BY <1>2, GoalsOfTables
      <4>2. g[1] \in DOMAIN EmptyDb
        BY <1>2, <4>1, ServicesDiffer DEF Tables, EmptyDb
      <4>3. write.table = "banks" => write.row \in BankRows
        BY <1>2, <1>9, ServicesDiffer DEF Tables
      <4>4. Comes(g[1], g[2], todo)
        BY <2>2 DEF Covered
      <4> QED
        BY <1>2, <1>5, <1>6, <1>7, <4>1, <4>2, <4>3, <4>4, ComesNext
    <3>2. ASSUME s = "commission"
          PROVE  /\ db'.commission_tiers \subseteq Tiers
                 /\ Tiers \subseteq db'.commission_tiers \cup {w.row : w \in WritesOf(rest)}
      <4>1. write.table = "commission_tiers" /\ write.row \in Tiers
        BY <1>9, <3>2 DEF Tables
      <4>2. "commission_tiers" \in DOMAIN db
        BY DEF TableOK, Typed, EmptyDb
      <4>3. write.old = {}
        BY <1>6, <4>1 DEF Sound
      <4>4. db'.commission_tiers = db.commission_tiers \cup {write.row}
        BY <1>5, <4>1, <4>2, <4>3 DEF Numbered
      <4>5. /\ db.commission_tiers \subseteq Tiers
            /\ Tiers \subseteq db.commission_tiers \cup {w.row : w \in WritesOf(todo)}
        BY <2>2, <3>2 DEF Covered
      <4> QED
        BY <1>5, <4>1, <4>4, <4>5
    <3>3. ASSUME s = "isp" PROVE DemoComes(rest)'
      <4>1. DemoComes(todo)
        BY <2>2, <3>3 DEF Covered
      <4> QED
        BY <1>2, <1>5, <1>6, <1>7, <4>1, DemoNext
    <3> QED
      BY <3>1, <3>2, <3>3 DEF Covered
  <2> QED
    BY <1>8, <2>1, <2>2
<1>12. ASSUME NEW r \in ServiceNames, r # s
       PROVE  /\ Healed(r) => Healed(r)'
              /\ r \in Counting => Counted(db')[r] = Counted(db)[r]
  <2>1. \A t \in Tables[r] : db[t] = db'[t]
    <3>1. write.table \notin Tables[r]
      BY <1>2, <1>9, <1>12, ServicesDiffer
    <3>2. Tables[r] \subseteq DOMAIN db
      BY ServicesDiffer DEF Tables, TableOK, Typed, EmptyDb
    <3> QED
      BY <1>7, <3>1, <3>2 DEF Landed
  <2>2. Complete(db, r) => Complete(db', r)
    BY <2>1, OwnTables
  <2>3. r \in Counting => Counted(db')[r] = Counted(db)[r]
    BY <2>1, OwnTables
  <2> QED
    BY <1>2, <2>2, <2>3, HealedStays
<1>13. ASSUME s = "globalConfig" PROVE Healed(s)'
  <2>1. PICK key \in GlobalConfig : GlobalConfig = {key}
    BY SeedingAssumption
  <2>2. write.table = "global_configuration" /\ write.row = [key |-> key]
    BY <1>9, <1>13, <2>1 DEF Tables
  <2>3. "global_configuration" \in DOMAIN db
    BY DEF TableOK, Typed, EmptyDb
  <2>4. write.row \in db'.global_configuration
    BY <1>5, <2>2, <2>3 DEF Numbered
  <2>5. Complete(db', s)
    BY <1>13, <2>1, <2>2, <2>4 DEF Complete
  <2> QED
    BY <2>5, CompleteNext DEF Healed
<1>14. \A r \in Counting \ {s} : Counted(db')[r] = {} \/ Healed(r)'
  BY <1>1, <1>2, <1>12, ServicesDiffer DEF SeedInv
<1>15. \A i \in DOMAIN Services : i < n => Healed(Services[i])'
  <2>1. ASSUME NEW i \in DOMAIN Services, i < n PROVE Services[i] # s /\ Services[i] \in ServiceNames
    BY <1>1, <1>2, <2>1, ServicesDiffer DEF ServiceNames
  <2>2. ASSUME NEW i \in DOMAIN Services, i < n PROVE Healed(Services[i])
    BY <1>1, <1>2, <2>2 DEF SeedInv, Through, Stands, Up
  <2> QED
    BY <1>12, <2>1, <2>2
<1>16. CASE rest # <<>>
  <2>1. boot'.pc = "writing" /\ boot'.service = n /\ boot'.todo = rest
    BY <1>2, <1>5, <1>16, OnwardFrom
  <2>2. \A r \in Counting : \/ Counted(db')[r] = {} \/ Healed(r)'
                            \/ Services[n] = r /\ r # "globalConfig"
    BY <1>1, <1>13, <1>14
  <2> QED
    BY <1>1, <1>10, <1>11, <1>15, <2>1, <2>2, SeedNext DEF Stands
<1>17. CASE rest = <<>>
  <2>1. Healed(s)'
    <3>1. Covered(s, <<>>)' => Complete(db, s)'
      BY <1>2, CoveredIsDoneNext DEF CoveredDone
    <3> QED
      BY <1>11, <1>17, <3>1 DEF Healed
  <2>2. /\ boot'.pc \in {"reading", "up"}
        /\ \A i \in DOMAIN Services : boot'.pc = "up" \/ i < boot'.service => i = n \/ i < n
    BY <1>2, <1>5, <1>17, OnwardFrom
  <2>3. \A i \in DOMAIN Services : boot'.pc = "up" \/ i < boot'.service => Stands(Services[i])'
    BY <1>1, <1>15, <2>1, <2>2 DEF Stands
  <2>4. PICK pc, m : pc = boot'.pc /\ m = boot'.service
    OBVIOUS
  <2>5. \A r \in Counting : Counted(db')[r] = {} \/ Healed(r)'
    BY <1>14, <2>1
  <2> QED
    BY <2>2, <2>3, <2>4, <2>5, SeedNext
<1> QED
  BY <1>16, <1>17

(* While the process is up only edits and updates write: they leave the    *)
(* tables nobody edits, and a product its bank and its name, but for what  *)
(* is recorded as renamed.                                                 *)
NamesStay ==
    /\ renamed \subseteq renamed'
    /\ \A p \in db.bank_product : HasProduct(db', p) \/ <<p.bank, p.name>> \in renamed'

Spared ==
    /\ NamesStay
    /\ \A t \in {"global_configuration", "commission_tiers", "banks", "user", "admin_profile"} :
          db'[t] = db[t]

LEMMA SeedUp ==
  ASSUME SeedInv, Up, boot' = boot, cutOff' = cutOff, edits > 0 => edits' > 0, Spared,
         \/ \A t \in {"network_manager", "isp", "isp_configuration"} : db'[t] = db[t]
         \/ edits' > 0
  PROVE  SeedInv'
<1>1. ASSUME NEW s \in ServiceNames, s # "bankProduct" PROVE Healed(s)'
  <2>1. Healed(s)
    BY <1>1 DEF SeedInv, Through, ServiceNames, Stands
  <2>2. Complete(db, s) => Complete(db', s) \/ Exempt(s)'
    <3>2. CASE s \in {"networkManager", "isp"} /\ edits' > 0
      BY <3>2 DEF Exempt
    <3>3. CASE ~ (s \in {"networkManager", "isp"} /\ edits' > 0)
      <4>1. \A t \in Tables[s] : db[t] = db'[t]
        BY <1>1, <3>3, ServicesDiffer DEF Spared, Tables
      <4> QED
        BY <4>1, OwnTables
    <3> QED
      BY <3>2, <3>3
  <2> QED
    BY <2>1, <2>2, HealedStays, CompleteNext DEF Healed
<1>2. PICK n : n = boot'.service
  OBVIOUS
<1>3. \A s \in Counting : Healed(s)'
  BY <1>1, ServicesDiffer DEF Counting
<1>4. ProductsThere'
  <2>1. Stands("bankProduct")
    BY ServicesDiffer DEF SeedInv, Through, ServiceNames
  <2>2. ProductsThere
    BY <2>1 DEF Stands, Healed, Exempt, Resumable, Complete, ProductsThere
  <2> QED
    BY <2>2 DEF ProductsThere, Spared, NamesStay, HasProduct
<1>5. boot'.pc = "up" /\ Up'
  BY DEF Up
<1>6. \A i \in DOMAIN Services : Stands(Services[i])'
  BY <1>1, <1>4, <1>5 DEF ServiceNames, Stands
<1> QED
  BY <1>2, <1>3, <1>5, <1>6, SeedNext

LEMMA EditKeeps ==
  ASSUME TableOK(db), Edit PROVE Spared
<1>1. CASE NetworkManagerEdit
  BY <1>1 DEF NetworkManagerEdit, CreateNetworkManager, UpdateNetworkManager,
              RemoveNetworkManager, Created, Changed, TableOK, Typed, EmptyDb, adminVars, Spared, NamesStay, HasProduct
<1>2. CASE IspConfigurationEdit
  BY <1>2 DEF IspConfigurationEdit, CreateIspConfiguration, UpdateIspConfiguration,
              RemoveIspConfiguration, Created, Changed, TableOK, Typed, EmptyDb, adminVars, Spared, NamesStay, HasProduct
<1>3. ASSUME NEW dto, CreateProduct(dto) PROVE Spared
  BY <1>3 DEF CreateProduct, Created, adminVars, TableOK, Typed, EmptyDb, Spared, NamesStay, HasProduct
<1>4. ASSUME NEW u, NEW id, NEW dto, StartUpdate(u, id, dto) PROVE Spared
  BY <1>4 DEF StartUpdate, Spared, NamesStay, HasProduct
<1> QED
  BY <1>1, <1>2, <1>3, <1>4 DEF Edit, BankProductEdit

(* An update writes one table.                                             *)
LEMMA UpdateWritesProducts ==
  ASSUME TableOK(db), NEW u \in Updates, UpdateStep(u) \/ UpdateThrows(u)
  PROVE  \A t \in DOMAIN EmptyDb \ {"bank_product"} : db'[t] = db[t]
<1>1. db' = db \/ \E p, q : db' = Changed(db, "bank_product", p, q)
  <2>1. CASE UpdateThrows(u) \/ ReadConfigurations(u) \/ EndConfigurations(u)
             \/ ReadProperties(u) \/ EndProperties(u)
    BY <2>1 DEF UpdateThrows, ReadConfigurations, EndConfigurations, ReadProperties, EndProperties
  <2>2. CASE WriteConfiguration(u)
    BY <2>2 DEF WriteConfiguration
  <2>3. CASE WriteProperty(u)
    BY <2>3 DEF WriteProperty
  <2>4. CASE WriteProduct(u)
    BY <2>4 DEF WriteProduct
  <2> QED
    BY <2>1, <2>2, <2>3, <2>4 DEF UpdateStep
<1> QED
  BY <1>1 DEF Changed, TableOK, Typed

(* And of the products only that of an update's last step may get another  *)
(* bank or another name.                                                   *)
LEMMA UpdateKeepsNames ==
  ASSUME TableOK(db), NEW u \in Updates, UpdateStep(u) \/ UpdateThrows(u)
  PROVE  NamesStay
<1>1. db.bank_product \subseteq BankProduct /\ "bank_product" \in DOMAIN db
  BY DEF TableOK, Typed, EmptyDb
<1>2. ASSUME NEW p, NEW q, db' = Changed(db, "bank_product", p, q),
             p \in BankProduct => q.bank = p.bank /\ q.name = p.name
      PROVE  \A x \in db.bank_product : HasProduct(db', x)
  BY <1>1, <1>2 DEF Changed, HasProduct
<1>3. ASSUME db' = db, renamed' = renamed PROVE NamesStay
  BY <1>3 DEF NamesStay, HasProduct
<1>4. CASE UpdateThrows(u) \/ ReadConfigurations(u) \/ EndConfigurations(u)
           \/ ReadProperties(u) \/ EndProperties(u)
  BY <1>3, <1>4 DEF UpdateThrows, ReadConfigurations, EndConfigurations, ReadProperties,
                    EndProperties
<1>5. CASE WriteConfiguration(u)
  <2>1. PICK p, q : /\ db' = Changed(db, "bank_product", p, q)
                    /\ \E rows : q = [p EXCEPT !.configurations = rows]
    BY <1>5 DEF WriteConfiguration
  <2>2. p \in BankProduct => q.bank = p.bank /\ q.name = p.name
    BY <2>1 DEF BankProduct
  <2>3. renamed' = renamed
    BY <1>5 DEF WriteConfiguration
  <2> QED
    BY <1>2, <2>1, <2>2, <2>3 DEF NamesStay
<1>6. CASE WriteProperty(u)
  <2>1. db' = db \/ \E p, q : /\ db' = Changed(db, "bank_product", p, q)
                              /\ \E rows : q = [p EXCEPT !.properties = rows]
    BY <1>6 DEF WriteProperty
  <2>2. renamed' = renamed
    BY <1>6 DEF WriteProperty
  <2>3. CASE db' # db
    <3>1. PICK p, q : /\ db' = Changed(db, "bank_product", p, q)
                      /\ \E rows : q = [p EXCEPT !.properties = rows]
      BY <2>1, <2>3
    <3>2. p \in BankProduct => q.bank = p.bank /\ q.name = p.name
      BY <3>1 DEF BankProduct
    <3> QED
      BY <1>2, <2>2, <3>1, <3>2 DEF NamesStay
  <2> QED
    BY <1>3, <2>2, <2>3
<1>7. CASE WriteProduct(u)
  <2> DEFINE p == ProductWith(update[u].product)
  <2>1. \/ db' = db /\ renamed' = renamed
        \/ \E q : /\ db' = Changed(db, "bank_product", p, q)
                  /\ \/ renamed' = renamed \cup {<<p.bank, p.name>>}
                     \/ renamed' = renamed /\ q.bank = p.bank /\ q.name = p.name
    BY <1>7 DEF WriteProduct
  <2>2. ASSUME NEW q, db' = Changed(db, "bank_product", p, q),
               renamed' = renamed \cup {<<p.bank, p.name>>}
        PROVE  NamesStay
    BY <1>1, <2>2 DEF Changed, NamesStay, HasProduct
  <2>3. ASSUME NEW q, db' = Changed(db, "bank_product", p, q), renamed' = renamed,
               q.bank = p.bank, q.name = p.name
        PROVE  NamesStay
    BY <1>2, <2>3 DEF NamesStay
  <2> QED
    BY <1>3, <2>1, <2>2, <2>3
<1> QED
  BY <1>4, <1>5, <1>6, <1>7 DEF UpdateStep

LEMMA SeedStep == ConfigInv /\ ConfigInv' /\ SeedInv /\ [Next]_vars => SeedInv'
<1> SUFFICES ASSUME ConfigInv, ConfigInv', SeedInv, [Next]_vars PROVE SeedInv'
    OBVIOUS
<1>1. TableOK(db) /\ TableOK(db)' /\ BootInv /\ AdminInv
  BY DEF ConfigInv
<1>2. edits \in Nat
  BY <1>1 DEF BootInv
<1>3. CASE (StartProcess \/ BootStep) /\ UNCHANGED <<update, contended, renamed, kept, calls, edits>>
  BY <1>1, <1>3, SeedStart, SeedRead, SeedWrite DEF BootStep
<1>4. CASE CallStep /\ UNCHANGED <<bootVars, update, contended, renamed, edits>>
  BY <1>4, SeedFrame DEF bootVars
<1>5. CASE Up /\ Edit /\ edits' = edits + 1 /\ UNCHANGED <<boot, deaths, cutOff, kept, calls>>
  <2>1. Spared
    BY <1>1, <1>5, EditKeeps
  <2>2. edits' > 0
    BY <1>2, <1>5
  <2> QED
    BY <1>5, <2>1, <2>2, SeedUp
<1>6. CASE /\ \E u \in Updates : UpdateStep(u) \/ UpdateThrows(u)
           /\ UNCHANGED <<boot, deaths, cutOff, kept, calls, edits>>
  <2>1. PICK u \in Updates : UpdateStep(u) \/ UpdateThrows(u)
    BY <1>6
  <2>2. update[u].pc \in UpdateInFlight
    BY <1>1, <2>1, StepLeaves
  <2>3. Up /\ Up'
    BY <1>1, <1>6, <2>2 DEF AdminInv, Up
  <2>4. NamesStay
    BY <1>1, <2>1, UpdateKeepsNames
  <2>5. \A t \in DOMAIN EmptyDb \ {"bank_product"} : db'[t] = db[t]
    BY <1>1, <2>1, UpdateWritesProducts
  <2>6. /\ Spared
        /\ \A t \in {"network_manager", "isp", "isp_configuration"} : db'[t] = db[t]
    BY <2>4, <2>5 DEF Spared, EmptyDb
  <2> QED
    BY <1>6, <2>3, <2>6, SeedUp
<1>7. CASE DieWithMemory
  BY <1>1, <1>7, SeedDie DEF DieWithMemory
<1>8. CASE UNCHANGED vars
  BY <1>8, SeedFrame DEF vars
<1> QED
  BY <1>3, <1>4, <1>5, <1>6, <1>7, <1>8 DEF Next, Running

(* Nothing is seeded yet but what an earlier release has left.             *)
LEMMA InitSeed == Init => SeedInv
<1> SUFFICES ASSUME Init PROVE SeedInv
    OBVIOUS
<1>1. boot.pc = "down" /\ db \in InitialTables
  BY DEF Init, InitBoot, Down
<1>2. DOMAIN Counted(db) = Counting
  BY DEF Counted, Counting
<1>3. \A s \in Counting : Counted(db)[s] = {} \/ Complete(db, s)
  BY <1>1, <1>2, SeedingAssumption
<1> QED
  BY <1>1, <1>3 DEF SeedInv, Through, Up, Healed

(* When the process is up, all that start-up is there for is there, in     *)
(* whatever order the inserts have landed and however often start-up was   *)
(* cut off and begun again, unless it was cut off inside one of the        *)
(* services that count rows, or an administrator has edited what it wrote: *)
(* of the bank products just those that an update since then has given     *)
(* another bank or another name.                                           *)
THEOREM SeedingCompletes == Spec => []SeedingHeals
<1>1. SeedInv => SeedingHeals
  BY DEF SeedInv, SeedingHeals, Through, Stands, ProductsThere, Healed, Exempt
<1>2. Spec => []SeedInv
  BY ConfigurationInvariant, InitSeed, SeedStep, PTL DEF Spec
<1> QED
  BY <1>1, <1>2, PTL
=============================================================================
