--------------------------- MODULE Configuration ---------------------------
(***************************************************************************)
(* From the environment to the parts of the daemon: config.Get and         *)
(* MustGet, GetAuth with its keyring, and the wiring of cmd/root.go with   *)
(* the constructors of the price providers.                                *)
(*                                                                         *)
(* An environment says whether the four required variables are set, and    *)
(* what the optional ones hold: Unset, Malformed or a value. A map of      *)
(* exchanges takes each exchange's name to the symbols of its pairs. An    *)
(* account and the validator of the same bytes have one address here.      *)
(***************************************************************************)
EXTENDS TLC

CONSTANTS
    KnownExchanges, \* the names NewPriceProvider has a source for
    BadPair,        \* a text that is no pair
    Unset, Malformed

Loaded(conf, symbolsMap) == [status |-> "ok", conf |-> conf, global |-> symbolsMap]
Refused(symbolsMap)      == [status |-> "error", global |-> symbolsMap]
Crashed                  == [status |-> "panic"]     \* and the process with it

\* Mutant of Overridden: the pairs an exchange has by default stay.
Overridden_KeepsPairs(symbolsMap, override) ==
    [e \in DOMAIN symbolsMap \union DOMAIN override |->
        IF e \in DOMAIN symbolsMap \intersect DOMAIN override
        THEN override[e] @@ symbolsMap[e] ELSE (override @@ symbolsMap)[e]]

\* An exchange the override names gets a new map, the others keep theirs.
Overridden(symbolsMap, override) ==
    [e \in DOMAIN symbolsMap \union DOMAIN override |->
        IF e \in DOMAIN override THEN override[e] ELSE symbolsMap[e]]

\* config.Get. The map it changes is the global default one, which the next
\* call starts from; an address that does not parse counts as none.
Get(global, env) ==
    LET given   == env.override \notin {Unset, Malformed}
        symbols == IF given THEN Overridden(global, env.override) ELSE global
    IN  IF env.override = Malformed THEN Refused(global)
        ELSE IF given /\ \E e \in DOMAIN env.override : BadPair \in DOMAIN env.override[e]
        THEN Crashed
        ELSE IF env.datasources = Malformed \/ ~env.required THEN Refused(symbols)
        ELSE Loaded([symbols       |-> symbols,
                     mnemonic      |-> env.mnemonic,
                     validatorAddr |-> IF env.validator = Malformed THEN Unset
                                       ELSE env.validator],
                    symbols)

-----------------------------------------------------------------------------
(* The keyring: one key, whatever name it is asked for by. *)

\* GetAuth: the address of the key is the validator's and the feeder's.
GetAuth(mnemonic) ==
    [keyring |-> [addr |-> mnemonic], valAddr |-> mnemonic, feederAddr |-> mnemonic]

-----------------------------------------------------------------------------
(* The price providers. *)

\* mapValues: the symbols an exchange is asked for.
MapValues(m) == {m[pair] : pair \in DOMAIN m}

NewPriceProvider(pairToSymbol) ==
    [symbols |-> MapValues(pairToSymbol), pairToSymbol |-> pairToSymbol]

\* PriceProvider.GetPrice, the age of the price left out (see PriceSource).
GetPrice(provider, pair, lastPrices) ==
    IF /\ pair \in DOMAIN provider.pairToSymbol
       /\ provider.pairToSymbol[pair] \in DOMAIN lastPrices
    THEN [valid |-> TRUE, price |-> lastPrices[provider.pairToSymbol[pair]]]
    ELSE [valid |-> FALSE]

-----------------------------------------------------------------------------
(* The command. *)

\* The transaction's messages name the poster's validator and feeder, its
\* signature is the keyring's.
Poster(keyring, validator, feeder) ==
    [keyring |-> keyring, validator |-> validator, feeder |-> feeder]

\* A delegated feeder votes for the validator it is told.
NewPoster(conf) ==
    LET auth == GetAuth(conf.mnemonic)
    IN  Poster(auth.keyring,
               IF conf.validatorAddr = Unset THEN auth.valAddr ELSE conf.validatorAddr,
               auth.feederAddr)

\* MustGet, which panics on an error, then NewAggregatePriceProvider, which
\* panics on a name it does not know, then the poster.
Boot(global, env) ==
    LET loaded == Get(global, env)
    IN  IF loaded.status = "ok" /\ DOMAIN loaded.conf.symbols \subseteq KnownExchanges
        THEN [status    |-> "started",
              providers |-> [e \in DOMAIN loaded.conf.symbols |->
                                NewPriceProvider(loaded.conf.symbols[e])],
              poster    |-> NewPoster(loaded.conf)]
        ELSE [status |-> "panic"]
=============================================================================
