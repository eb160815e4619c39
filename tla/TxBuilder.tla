------------------------------ MODULE TxBuilder ------------------------------
(***************************************************************************)
(* POST /v1/buildtx: the start of the API, which makes a builder and a     *)
(* proxy per configured chain, the validation of a request by              *)
(* handlers/build_tx.go and the builders of pkg/txbuild, ethtx, soltx and  *)
(* neartx behind it.                                                       *)
(*                                                                         *)
(* A chain is its type.  Of a request there is what the two layers tell    *)
(* apart: which fields are present, and which of them decode.              *)
(***************************************************************************)
CONSTANT Configured     \* sets of chains the API may be configured with

VARIABLES
    chains,             \* data.chains of the configuration
    api,                \* "down", "up" or "failed": it panicked at its start
    call,               \* the request in hand
    answer,             \* what it was answered with
    nodeFailed          \* history: a call of the chain's node failed

vars == <<chains, api, call, answer, nodeFailed>>

Types == {"native", "erc20", "erc721", "erc1155", "ft", "nft"}

\* An id is {network}:{0x hex}; "bare" is one without the 0x, "address" what
\* has no network in front of it.
EvmRequests ==
    [network : {"evm"}, type : Types \cup {"unknown"},
     amount : {"absent", "words", "number"},
     tokenAddr : {"absent", "malformed", "address"},
     tokenId : {"absent", "hex", "decimal"}, isWrapped : {"absent", "given"},
     receiver : {"absent", "address"}, sender : {"absent"},
     account : {"bare", "id"}, bundle : {"malformed", "hex"}]

SolanaRequests ==
    [network : {"solana"}, type : Types \cup {"unknown"},
     amount : {"absent", "words", "number"},
     tokenAddr : {"absent", "malformed", "address"},
     tokenId : {"absent"}, isWrapped : {"absent"},
     receiver : {"absent", "address", "id"}, sender : {"absent"},
     account : {"bare", "id"}, bundle : {"malformed", "hex"}]

NearRequests ==
    [network : {"near"}, type : Types \cup {"unknown"},
     amount : {"absent", "words", "number"},
     tokenAddr : {"absent", "address"},
     tokenId : {"absent", "hex"}, isWrapped : {"absent", "given"},
     receiver : {"absent", "address"}, sender : {"absent", "address", "id"},
     account : {"bare", "id"}, bundle : {"malformed", "hex"}]

OtherRequests ==
    [network : {"rarimo", "other", "unknown"}, type : {"native"},
     amount : {"number"}, tokenAddr : {"absent"}, tokenId : {"absent"},
     isWrapped : {"absent"}, receiver : {"id"}, sender : {"id"},
     account : {"id"}, bundle : {"hex"}]

Requests == EvmRequests \cup SolanaRequests \cup NearRequests \cup OtherRequests
NoCall == [network |-> "none"]

Init ==
    /\ chains \in Configured
    /\ api = "down"
    /\ call = NoCall /\ answer = "none" /\ nodeFailed = FALSE

-----------------------------------------------------------------------------
(* The start of the API *)

\* NewMultiBuilder passes over a Rarimo chain and panics at another type.
MultiBuilderStarts == "other" \notin chains

\* proxy.New passes over another type and panics at a Rarimo chain.
ProxiesStart == "rarimo" \notin chains

Builders == chains \cap {"evm", "solana", "near"}

\* The start fails as well when the core's parameters cannot be read, or a
\* chain has no bridge contract in them.
Start ==
    /\ api # "up"
    /\ \/ MultiBuilderStarts /\ ProxiesStart /\ api' = "up"
       \/ api' = "failed"
    /\ UNCHANGED <<chains, call, answer, nodeFailed>>

\* The process ends, and with it the request it handles.
Stop ==
    /\ api = "up"
    /\ api' = "down"
    /\ call' = NoCall /\ answer' = "none" /\ nodeFailed' = FALSE
    /\ UNCHANGED chains

-----------------------------------------------------------------------------
(* Validation *)

Has(req, field) == req[field] # "absent"

ValidEvm(req) ==
    /\ req.bundle = "hex" /\ Has(req, "receiver")
    /\ Has(req, "amount") <=> req.type # "nft"
    /\ Has(req, "tokenAddr") <=> req.type # "native"
    /\ req.tokenAddr # "malformed"
    /\ req.type \in {"erc721", "erc1155"} => Has(req, "tokenId")
    /\ req.type \in {"native", "erc20"} => ~Has(req, "tokenId")
    /\ req.type = "native" => ~Has(req, "isWrapped")

ValidSolana(req) ==
    /\ req.bundle = "hex" /\ Has(req, "receiver")
    /\ Has(req, "amount") <=> req.type = "native"
    /\ req.type \in {"ft", "nft"} => Has(req, "tokenAddr")
    /\ req.type = "native" => ~Has(req, "tokenAddr")

\* Mutant: the condition on the amount is the one of a Solana deposit.
ValidNearNativeAmount(req) ==
    /\ Has(req, "sender") /\ Has(req, "receiver")
    /\ Has(req, "amount") <=> req.type = "native"
    /\ req.type \in {"ft", "nft"} => Has(req, "tokenAddr")
    /\ req.type = "native" => ~Has(req, "tokenAddr")

ValidNear(req) ==
    /\ Has(req, "sender") /\ Has(req, "receiver")
    /\ Has(req, "amount") <=> req.type # "nft"
    /\ req.type \in {"ft", "nft"} => Has(req, "tokenAddr")
    /\ req.type = "native" => ~Has(req, "tokenAddr")

ValidateBuildTx(req) ==
    /\ req.type \in Types
    /\ req.network \in chains \ {"rarimo", "other"}
    /\ req.network = "evm" => ValidEvm(req)
    /\ req.network = "solana" => ValidSolana(req)
    /\ req.network = "near" => ValidNear(req)

-----------------------------------------------------------------------------
(* The builders.  An error of theirs is a panic of the handler, "failed";  *)
(* "crashed" is a nil dereference or the index of a list that is nil.      *)

\* DecodeAccountID and DecodePublicKey take the first key before they look at
\* the error.
Decodes(id) == id = "id"

\* What validate<Type>DepositTxData of the builders asks for.
EvmRequires ==
    [native |-> {"amount"},
     erc20 |-> {"amount", "tokenAddr", "isWrapped"},
     erc721 |-> {"tokenId", "tokenAddr", "isWrapped"},
     erc1155 |-> {"amount", "tokenId", "tokenAddr", "isWrapped"}]

\* Mutant: the flag of a wrapped token is not asked for.
NearRequiresNoFlag ==
    [native |-> {"amount"},
     ft |-> {"tokenAddr", "amount"},
     nft |-> {"tokenAddr", "tokenId"}]

NearRequires ==
    [native |-> {"amount"},
     ft |-> {"tokenAddr", "amount", "isWrapped"},
     nft |-> {"tokenAddr", "tokenId", "isWrapped"}]

HasAll(req, fields) == \A f \in fields : Has(req, f)

BuildEvm(req) ==
    IF ~Decodes(req.account) THEN "crashed"
    ELSE IF /\ req.type \in DOMAIN EvmRequires /\ HasAll(req, EvmRequires[req.type])
            /\ req.type # "erc721" => req.amount # "words"
            /\ req.type \in {"erc721", "erc1155"} => req.tokenId # "hex"
         THEN "built" ELSE "failed"

BuildSolana(req) ==
    IF ~Decodes(req.account) \/ ~Decodes(req.receiver) THEN "crashed"
    ELSE IF /\ req.type \in {"native", "ft", "nft"}
            /\ req.type # "nft" => req.amount = "number"
            /\ req.type # "native" => req.tokenAddr = "address"
         THEN "built" ELSE "failed"

\* A field that is used without having been asked for is a nil dereference.
BuildNear(req) ==
    IF ~Decodes(req.account) \/ ~Decodes(req.sender) THEN "crashed"
    ELSE IF /\ req.type \in DOMAIN NearRequires /\ HasAll(req, NearRequires[req.type])
            /\ req.type # "nft" => req.amount # "words"
         THEN IF req.type = "native" \/ HasAll(req, {"tokenAddr", "isWrapped"})
              THEN "built" ELSE "crashed"
         ELSE "failed"

\* A chain without a builder is a nil interface.
Build(req) ==
    IF req.network \notin Builders THEN "crashed"
    ELSE CASE req.network = "evm" -> BuildEvm(req)
           [] req.network = "solana" -> BuildSolana(req)
           [] req.network = "near" -> BuildNear(req)

\* The builders of NEAR decode the ids before they ask the node, the others
\* ask it first.
NodeAsked(req) ==
    req.network = "near" => Decodes(req.account) /\ Decodes(req.sender)

BuildTx(req) ==
    /\ api = "up" /\ call = NoCall
    /\ call' = req
    /\ IF ~ValidateBuildTx(req)
       THEN answer' = "refused" /\ UNCHANGED nodeFailed
       ELSE \/ answer' = Build(req) /\ UNCHANGED nodeFailed
            \/ NodeAsked(req) /\ answer' = "failed" /\ nodeFailed' = TRUE
    /\ UNCHANGED <<chains, api>>

\* The answer is rendered, by the recoverer when the handler panicked.
Render ==
    /\ call # NoCall
    /\ call' = NoCall /\ answer' = "none" /\ nodeFailed' = FALSE
    /\ UNCHANGED <<chains, api>>

Next == Start \/ Stop \/ (\E req \in Requests : BuildTx(req)) \/ Render

Spec == Init /\ [][Next]_vars

-----------------------------------------------------------------------------
TypeOK ==
    /\ chains \in Configured
    /\ api \in {"down", "up", "failed"}
    /\ call \in Requests \cup {NoCall}
    /\ answer \in {"none", "built", "refused", "failed", "crashed"}
    /\ nodeFailed \in BOOLEAN

\* Is the request what docs/spec/components/schemas asks of a deposit of its
\* type: the fields it needs in the form they are given there, and none that
\* belongs to another type?
Complete(req) ==
    /\ req.network \in chains
    /\ req.type \in CASE req.network = "evm" -> DOMAIN EvmRequires
                      [] req.network \in {"solana", "near"} -> {"native", "ft", "nft"}
                      [] OTHER -> {}
    /\ req.bundle = "hex" /\ Has(req, "receiver")
    /\ req.network = "near" => Has(req, "sender")
    /\ req.amount = IF req.type \in {"erc721", "nft"} THEN "absent" ELSE "number"
    /\ req.tokenAddr = IF req.type = "native" THEN "absent" ELSE "address"
    /\ req.tokenId = IF \/ req.type \in {"erc721", "erc1155"}
                        \/ req.network = "near" /\ req.type = "nft"
                     THEN "hex" ELSE "absent"
    /\ req.type = "native" => ~Has(req, "isWrapped")

\* The documented deposits that the code does not build: a fungible token of
\* Solana, whose amount must be left out and be there; an ERC-721, whose
\* amount must be there; a token id in hex; a wrapped flag left out; an id
\* that is not {network}:{0x hex}.
Unbuildable(req) ==
    \/ req.network = "solana" /\ req.type = "ft"
    \/ req.network = "evm" /\ req.type \in {"erc721", "erc1155"}
    \/ req.network # "solana" /\ req.type # "native" /\ ~Has(req, "isWrapped")
    \/ ~Decodes(req.account)
    \/ req.network = "solana" /\ ~Decodes(req.receiver)
    \/ req.network = "near" /\ ~Decodes(req.sender)

\* A documented deposit that is not one of those above is built, unless the
\* chain's node fails: validation and builder agree on all of its fields.
NotBuiltForAReason ==
    call # NoCall /\ Complete(call) /\ ~nodeFailed =>
        answer = "built" \/ Unbuildable(call)

\* Nothing but an id that does not decode ends a handler at run time: what
\* validation lets through finds a builder, and the builder finds the fields
\* it uses.
CrashOnlyOnUndecodedId ==
    answer = "crashed" =>
        \/ ~Decodes(call.account)
        \/ call.network = "solana" /\ ~Decodes(call.receiver)
        \/ call.network = "near" /\ ~Decodes(call.sender)
=============================================================================
