---------------------------- MODULE Identifiers ----------------------------
(* What a user may have typed to name a coin                                  *)
(* (packages/core/src/services/identifiers.ts): ranked candidates for the     *)
(* repository to look up.  An input is [prefix, shape]: the word before a     *)
(* colon, or None, and what the patterns recognise in the rest.               *)
EXTENDS Naturals, Sequences, SequencesExt

CONSTANT None

\* The patterns an address matches: the overlapping ones of Tron, legacy Bitcoin
\* and bech32 with Solana's base58; "hrp" a known human-readable part, "short" an
\* address below 26 characters.  What is no address is a word of some form: a
\* ticker has 2 to 6 letters or digits, "hyphened" and "word" are the others.
Addresses == {{"evm"}, {"tron", "base58"}, {"btc"}, {"btc", "base58"}, {"base58"}, {"bech32"}, {"bech32", "base58"},
              {"bech32", "hrp"}, {"bech32", "hrp", "base58"}, {"bech32", "hrp", "short"}}
Shapes == Addresses \union {{"sigil"}, {"ticker"}, {"hyphened"}, {"word"}, {"words"}}

\* Some chains and the format of their addresses.
Format == [ethereum |-> "evm", base |-> "evm", arbitrum |-> "evm", bsc |-> "evm", polygon |-> "evm",
           optimism |-> "evm", solana |-> "base58", bitcoin |-> "other", tron |-> "other",
           cosmos |-> "bech32"]

\* The patterns are tried in this order; bech32 answers even when it knows no chain.
InferChain(shape) ==
  CASE "evm" \in shape -> "ethereum"
    [] "tron" \in shape -> "tron"
    [] "btc" \in shape -> "bitcoin"
    [] "bech32" \in shape -> IF "hrp" \in shape THEN "cosmos" ELSE None
    [] shape = {"base58"} -> "solana"
    [] OTHER -> None

IsSolanaAddress(shape) == "base58" \in shape /\ "tron" \notin shape

\* What becomes of the letters of an address.
NormalizedCase(chain) == IF Format[chain] = "base58" THEN "kept" ELSE "lower"

\* What the patterns may recognise in an address in lower case: an L becomes the l
\* that base58 has not, Tron's T is gone, and mixed letters may become bech32.
Lowered(shape) ==
  CASE shape \intersect {"evm", "bech32"} # {} -> {shape}
    [] "btc" \in shape -> {shape, {"word"}}
    [] "tron" \in shape -> {{"word"}, {"base58"}, {"bech32"}, {"bech32", "base58"}}
    [] OTHER -> {{"word"}, {"base58"}, {"bech32"}, {"bech32", "base58"}, {"bech32", "hrp"}, {"bech32", "hrp", "base58"}}

Candidate(kind, case, chain, confidence) ==
  [kind |-> kind, case |-> case, chain |-> chain, confidence |-> confidence]

\* chain:value is a contract when it looks like an address of any chain.
QualifiedByChain(chain, shape) ==
  LET address == \/ Format[chain] = "evm" /\ "evm" \in shape
                 \/ Format[chain] = "base58" /\ IsSolanaAddress(shape)
                 \/ Format[chain] = "bech32" /\ "bech32" \in shape
                 \/ InferChain(shape) # None
  IN  <<IF address THEN Candidate("CONTRACT", NormalizedCase(chain), chain, 100)
                   ELSE Candidate("SYMBOL", "upper", chain, 60)>>

Qualified(prefix, shape) ==
  CASE prefix = "coingecko" -> <<Candidate("COINGECKO", "lower", None, 100)>>
    [] prefix = "cmc"       -> <<Candidate("COINMARKETCAP", "kept", None, 100)>>
    [] prefix = "symbol"    -> <<Candidate("SYMBOL", "upper", None, 100)>>
    [] prefix = "slug"      -> <<Candidate("SLUG", "lower", None, 100)>>
    [] OTHER                -> QualifiedByChain(prefix, shape)

\* The same contract may be on any of these chains; Ethereum first.
EvmChains == <<"ethereum", "base", "arbitrum", "bsc", "polygon", "optimism">>

Bare(shape) ==
  CASE "evm" \in shape -> [i \in 1..6 |-> Candidate("CONTRACT", "lower", EvmChains[i], 100 - 5 * i)]
    [] "evm" \notin shape /\ InferChain(shape) # None /\ "short" \notin shape ->
         <<Candidate("CONTRACT", NormalizedCase(InferChain(shape)), InferChain(shape), 90)>>
    [] shape = {"sigil"} -> <<Candidate("SYMBOL", "upper", None, 95)>>
    [] shape = {"ticker"} -> <<Candidate("SYMBOL", "upper", None, 80), Candidate("SLUG", "lower", None, 50),
                               Candidate("COINGECKO", "lower", None, 40)>>
    [] shape = {"hyphened"} -> <<Candidate("COINGECKO", "lower", None, 80), Candidate("SLUG", "lower", None, 75)>>
    [] shape = {"words"} -> <<Candidate("SLUG", "lower", None, 60), Candidate("COINGECKO", "lower", None, 40)>>
    [] OTHER -> <<Candidate("SLUG", "lower", None, 60), Candidate("SYMBOL", "upper", None, 40)>>

\* A prefix that is no namespace and no chain is part of a bare word.
ParseIdentifier(prefix, shape) ==
  IF prefix \in {"coingecko", "cmc", "symbol", "slug"} \union DOMAIN Format
  THEN Qualified(prefix, shape)
  ELSE Bare(IF prefix = None \/ shape \in {{"hyphened"}, {"words"}} THEN shape ELSE {"word"})

------------------------------------------------------------------------------
\* identifiers.ts: the candidates have a rank each, so the first match is well
\* defined; and a contract among them, written back as chain:address, is read as
\* that one contract and no other, whichever patterns its letters now match.  The
\* exception is what the code loses: an address of Bitcoin, Tron or Solana named
\* under a chain that is not Solana's is put in lower case, and may then be read
\* as a symbol of that chain, but never as another contract.
CandidatesReadBack(prefix, shape) ==
  LET candidates == ParseIdentifier(prefix, shape) IN
  /\ candidates # <<>>
  /\ \A i, j \in 1..Len(candidates) : i < j => candidates[i].confidence > candidates[j].confidence
  /\ \A c \in ToSet(candidates) : c.kind = "CONTRACT" =>
       \A written \in IF c.case = "lower" THEN Lowered(shape) ELSE {shape} :
         LET read == ParseIdentifier(c.chain, written) IN
         \/ read = <<[c EXCEPT !.confidence = 100]>>
         \/ /\ Format[c.chain] # "base58" /\ shape \intersect {"evm", "bech32"} = {}
            /\ read = <<Candidate("SYMBOL", "upper", c.chain, 60)>>
=============================================================================
