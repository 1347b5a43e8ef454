-------------------------- MODULE MCConfiguration ---------------------------
(* A slice of the catalog that has each kind of entry: a bank without      *)
(* products, one with two, one with properties; two tiers; a network       *)
(* manager with an address and one without.                                *)
EXTENDS Configuration, Catalog

MCBankList == SelectSeq(BANK_LIST, LAMBDA entry : entry[1] \in {"0134", "0138", "0191"})
MCProductsByBank == <<BanescoProducts, BancoPlazaProducts>>
MCTiers == {t \in COMMISSION_TIERS : t.max_transactions <= 5000}
MCManagers == [name \in {"MIKROWISP", "WISPHUB"} |-> NETWORK_MANAGERS[name]]

MCNames == DOMAIN MCManagers \cup {"HYDRA", ""}
MCCodes == {BANK_LIST[i][1] : i \in DOMAIN BANK_LIST}
MCBankNames == {BANK_LIST[i][2] : i \in DOMAIN BANK_LIST} \cup {"BNC"}
MCKeys == UNION {p.properties : p \in BANK_PRODUCTS}
MCTexts == MCNames \cup MCCodes \cup MCKeys \cup {"new", "demo", "seeded"}

(* A full dto, one that changes the key alone, one that empties the        *)
(* address, and one that renames.                                          *)
MCManagerDtos ==
    {[name |-> "HYDRA", api_url |-> Plain("new"), api_key |-> Plain("new"), api_secret |-> Plain("new")],
     [name |-> "", api_url |-> Absent, api_key |-> Plain("new"), api_secret |-> Empty],
     [name |-> "", api_url |-> Empty, api_key |-> Absent, api_secret |-> Absent]}

MCTokens == {Plain("new")}

MCRate(currency, rate) == [currency |-> currency, rate |-> rate]
MCProperty(key, value) == [key |-> key, value |-> value]

(* A full dto; one that renames, with a currency and a property it names   *)
(* twice; one that moves the product to another bank and empties its key;  *)
(* one that names a bank there is not.                                     *)
MCProductDtos ==
    {[columns |-> [bank |-> "0138", name |-> "C2P", is_active |-> TRUE],
      api_url |-> Plain("new"), api_key |-> Plain("new"),
      api_secret |-> Plain("new"), configurations |-> <<MCRate("USD", 7)>>,
      properties |-> <<MCProperty("origen", "new")>>],
     [columns |-> [name |-> "B2P"], api_url |-> Absent, api_key |-> Plain("demo"),
      api_secret |-> Empty,
      configurations |-> <<MCRate("VES", 8), MCRate("USD", 8), MCRate("VES", 9)>>,
      properties |-> <<MCProperty("motivo", "new"), MCProperty("motivo", "demo")>>],
     [columns |-> [bank |-> "0191", is_active |-> FALSE], api_url |-> Absent,
      api_key |-> Empty, api_secret |-> Absent, configurations |-> <<>>, properties |-> <<>>],
     [NoDto EXCEPT !.columns = [bank |-> "0102"], !.api_secret = Plain("new")]}

(* An empty database, and one of an earlier release, with a bank under     *)
(* another name and without the products of Banesco.                       *)
EarlierDb == [EmptyDb EXCEPT !.banks = {[code |-> "0191", name |-> "BNC"]},
                             !.global_configuration = {[key |-> "admin_soft_url"]}]

MCInitialTables == {EmptyDb, EarlierDb}

Symmetric == Permutations(Updates) \cup Permutations(Calls)
=============================================================================
