----------------------------- MODULE ItemRequests -----------------------------
(***************************************************************************)
(* GET /v1/items/{index}/chains/{chain}/balance/{account_address} and      *)
(* .../nfts/{token_id}/metadata: a handler reads the item and then its     *)
(* collection data from the core, asks the proxy of the chain, and, for    *)
(* metadata, has the document behind the token's uri fetched.              *)
(*                                                                         *)
(* One item, one chain of the request, one request at a time.  The core    *)
(* chain may change between the two reads.                                 *)
(***************************************************************************)
EXTENDS Naturals

CONSTANT MaxChanges         \* bound: changes of the core chain in a request

VARIABLES
    network,            \* type of the chain asked about
    index,              \* token id of the item's entry for it, or "none"
    token,              \* token type of its collection data, or "none"
    call,               \* the request
    step,               \* of the handler
    found, type,        \* index and token as the handler read them
    uri,                \* where the token's metadata is, "none" before that is known
    answer,
    changes,            \* history: changes of the core chain in the request
    disturbed,          \* history: a call failed or a document was unusable
    missing             \* history: what was asked for is not there

vars == <<network, index, token, call, step, found, type, uri, answer, changes,
          disturbed, missing>>

\* Token ids by what they parse as.
Ids == {"decimal", "0xhex", "base58"}

Supported ==
    [evm |-> {"native", "erc20", "erc721", "erc1155"},
     solana |-> {"native", "metaplexFt", "metaplexNft"},
     near |-> {"native", "nearFt", "nearNft"},
     other |-> {}]

TokenTypes == UNION {Supported[n] : n \in DOMAIN Supported}

isNftTokenType == {"erc721", "erc1155", "nearNft", "metaplexNft"}

Requests ==
    [kind : {"balance"}, tokenId : Ids \cup {"none"}, account : {"parses", "malformed"}]
        \cup [kind : {"metadata"}, tokenId : Ids, account : {"parses"}]

\* Uris by what there is before the colon: nothing at all, or a uri without it.
Uris == {"empty", "noScheme", "http", "gateway", "ipfs", "data", "other", "unparsable"}

Init ==
    /\ network \in DOMAIN Supported
    /\ index \in Ids \cup {"none"} /\ token \in TokenTypes \cup {"none"}
    /\ call \in Requests /\ step = "item"
    /\ found = "none" /\ type = "none" /\ uri = "none"
    /\ answer = "none"
    /\ changes = 0 /\ disturbed = FALSE /\ missing = FALSE

-----------------------------------------------------------------------------
(* The handlers, which differ in the proxy's method and in one check *)

Answer(code) == answer' = code /\ step' = "done"
Failed(code) == Answer(code) /\ disturbed' = TRUE /\ UNCHANGED missing

\* Core().Tokenmanager().GetItem; a missing item has no entry, either.
ReadItem ==
    /\ step = "item"
    /\ \/ Failed("internal") /\ UNCHANGED found
       \/ /\ found' = index
          /\ IF index = "none"
             THEN Answer("bad") ELSE step' = "data" /\ UNCHANGED answer
          /\ UNCHANGED <<disturbed, missing>>
    /\ UNCHANGED <<network, index, token, call, type, uri, changes>>

\* What the metadata handler makes of a token that is none: it wraps an error
\* that is nil, and how a nil problem is rendered is up to the library.
NotNft == {"bad", "crashed"}

\* Core().Tokenmanager().GetCollectionData and the check of the token's type.
ReadData ==
    /\ step = "data"
    /\ \/ Failed("internal") /\ UNCHANGED type
       \/ /\ type' = token
          /\ IF token = "none" THEN Answer("internal")
             ELSE IF call.kind = "metadata" /\ token \notin isNftTokenType
             THEN \E code \in NotNft : Answer(code)
             ELSE step' = "proxy" /\ UNCHANGED answer
          /\ UNCHANGED <<disturbed, missing>>
    /\ UNCHANGED <<network, index, token, call, found, uri, changes>>

\* No proxy is made for a chain of another type, or one that is not
\* configured, and a nil one is called.
NoProxy ==
    /\ step = "proxy" /\ network = "other"
    /\ Answer("crashed")
    /\ UNCHANGED <<network, index, token, call, found, type, uri, changes,
                   disturbed, missing>>

-----------------------------------------------------------------------------
(* BalanceOf of the proxies *)

\* Mutant: the id of an ERC-721 is asked for as well.
EvmAsksForAnyNft == type \in {"erc721", "erc1155"} => call.tokenId = "decimal"

\* What a proxy refuses before it asks the node: the token id of the request
\* is used for an ERC-1155 only, and read as a decimal.
EvmAsks == type = "erc1155" => call.tokenId = "decimal"

SolanaAsks == call.account = "parses"

AsksBalance ==
    /\ type \in Supported[network]
    /\ network = "evm" => EvmAsks
    /\ network = "solana" => SolanaAsks

\* AmountFromBig panics when the token has more decimals than an amount.
AmountFromBig == {"ok", "crashed"}

BalanceOf ==
    /\ step = "proxy" /\ call.kind = "balance" /\ network # "other"
    /\ IF ~AsksBalance
       THEN Answer("internal") /\ UNCHANGED <<disturbed, missing>>
       ELSE \/ Failed("internal")
            \/ \E code \in AmountFromBig :
                  Answer(code) /\ disturbed' = (code # "ok") /\ UNCHANGED missing
    /\ UNCHANGED <<network, index, token, call, found, type, uri, changes>>

-----------------------------------------------------------------------------
(* NftMetadata of the proxies: the id is the one of the item's entry *)

EvmMetadata == found = "decimal" /\ type \in {"erc721", "erc1155"}
SolanaMetadata == found = "base58"

AsksMetadata ==
    /\ network = "evm" => EvmMetadata
    /\ network = "solana" => SolanaMetadata

\* The token is not there: an EVM contract reverts, the account of Solana is
\* not found, the contract of NEAR answers null, which is dereferenced.
Absent(chain) ==
    CASE chain = "evm" -> "internal"
      [] chain = "solana" -> "notFound"
      [] chain = "near" -> "crashed"

NftMetadata ==
    /\ step = "proxy" /\ call.kind = "metadata" /\ network # "other"
    /\ \/ ~AsksMetadata /\ Answer("internal") /\ UNCHANGED <<uri, disturbed, missing>>
       \/ AsksMetadata /\ Failed("internal") /\ UNCHANGED uri
       \/ /\ AsksMetadata /\ Answer(Absent(network))
          /\ disturbed' = TRUE /\ missing' = TRUE /\ UNCHANGED uri
       \/ /\ AsksMetadata /\ uri' \in Uris
          /\ IF network = "near" /\ uri' = "empty"    \* metadata.Reference == ""
             THEN Answer("ok")
             ELSE step' = "fetch" /\ UNCHANGED answer
          /\ UNCHANGED <<disturbed, missing>>
    /\ UNCHANGED <<network, index, token, call, found, type, changes>>

-----------------------------------------------------------------------------
(* GetMetadata of the fetcher *)

\* parseUri: a public gateway is replaced by the protocol it stands for.
Parsed(u) == IF u = "gateway" THEN "ipfs" ELSE u

\* What a request for a document comes to: 200, 404, 401 or 403, a 500 that says
\* "no link named", or anything else.
Served == {"ok", "notFound", "forbidden", "noLink", "fails"}

\* Get of the IPFS gateway takes a missing link for a 404.
IpfsGet == [ok |-> "payload", notFound |-> "nonRetriable", forbidden |-> "error",
            noLink |-> "nonRetriable", fails |-> "error"]

HttpGet == [ok |-> "payload", notFound |-> "nonRetriable", forbidden |-> "nonRetriable",
            noLink |-> "error", fails |-> "error"]

\* parseDataContentType, which decodes or does not.
DataGet == [ok |-> "payload", notFound |-> "error", forbidden |-> "error",
            noLink |-> "error", fails |-> "error"]

\* Mutant: whatever IPFS answers is wrapped as not found.
PayloadIpfsNotFound(scheme, served) ==
    CASE scheme = "http" -> HttpGet[served]
      [] scheme = "ipfs" -> IF served = "ok" THEN "payload" ELSE "nonRetriable"
      [] scheme = "data" -> DataGet[served]
      [] scheme \in {"empty", "noScheme"} -> "nonRetriable"
      [] OTHER -> "error"

\* getPayload by the scheme of the uri
Payload(scheme, served) ==
    CASE scheme = "http" -> HttpGet[served]
      [] scheme = "ipfs" -> IpfsGet[served]
      [] scheme = "data" -> DataGet[served]
      [] scheme \in {"empty", "noScheme"} -> "nonRetriable"
      [] OTHER -> "error"

\* extractMetadata: an attribute that is not an object ends the handler.
ExtractMetadata ==
    [object |-> "ok", notObject |-> "internal", oddAttribute |-> "crashed"]

\* The document is not there, or not open to the public.
Absences == {"notFound", "forbidden", "noLink"}

\* The proxies take ErrNonRetriable for not found.
GetMetadata ==
    /\ step = "fetch"
    /\ \E served \in Served, document \in DOMAIN ExtractMetadata :
          LET payload == Payload(Parsed(uri), served)
              code == CASE payload = "payload" -> ExtractMetadata[document]
                        [] payload = "nonRetriable" -> "notFound"
                        [] payload = "error" -> "internal"
          IN  /\ Answer(code)
              /\ disturbed' = (code \notin {"ok", "notFound"})
              /\ missing' = (served \in Absences \/ uri \in {"empty", "noScheme"})
    /\ UNCHANGED <<network, index, token, call, found, type, uri, changes>>

-----------------------------------------------------------------------------
\* The entry or the collection data is set, replaced or removed between the
\* two reads; at any other time that is another initial state, or not seen.
Change ==
    /\ step = "data" /\ changes < MaxChanges
    /\ changes' = changes + 1
    /\ \/ index' \in Ids \cup {"none"} /\ UNCHANGED token
       \/ token' \in TokenTypes \cup {"none"} /\ UNCHANGED index
    /\ UNCHANGED <<network, call, step, found, type, uri, answer, disturbed, missing>>

Next == ReadItem \/ ReadData \/ NoProxy \/ BalanceOf \/ NftMetadata \/ GetMetadata \/ Change

Spec == Init /\ [][Next]_vars

-----------------------------------------------------------------------------
TypeOK ==
    /\ network \in DOMAIN Supported
    /\ index \in Ids \cup {"none"} /\ token \in TokenTypes \cup {"none"}
    /\ call \in Requests
    /\ step \in {"item", "data", "proxy", "fetch", "done"}
    /\ found \in Ids \cup {"none"} /\ type \in TokenTypes \cup {"none"}
    /\ uri \in Uris \cup {"none"}
    /\ answer \in {"none", "ok", "bad", "notFound", "internal", "crashed"}
    /\ changes \in 0..MaxChanges
    /\ disturbed \in BOOLEAN /\ missing \in BOOLEAN

\* Could the request be answered by the core chain as it is?
Servable ==
    /\ index # "none" /\ token \in Supported[network]
    /\ IF call.kind = "balance"
       THEN /\ token = "erc1155" => call.tokenId = "decimal"
            /\ network = "solana" => call.account = "parses"
       ELSE /\ token \in isNftTokenType
            /\ network = "evm" => index = "decimal"
            /\ network = "solana" => index = "base58"

\* A request that the core chain could answer when it came is answered, or not
\* found, unless the chain changed under the handler, a call failed or a
\* document was of no use.
ServedUnlessDisturbed ==
    step = "done" /\ changes = 0 /\ ~disturbed /\ Servable =>
        answer \in {"ok", "notFound"}

\* "Not found" is never said for a failure that may pass: the token, or the
\* document of a token, is not there or not open to the public.
NotFoundOnlyIfMissing == answer = "notFound" => missing
=============================================================================
