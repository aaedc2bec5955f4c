-------------------------------- MODULE ScVal --------------------------------
(***************************************************************************)
(* The four encodings a contract value goes through, and the conversions    *)
(* between them: XDR (the client's), JSON (request.json, response.json and  *)
(* receipts), K terms (state.kore).                                         *)
(*                                                                         *)
(* A value is a pair of its type and its content.  The content of an XDR    *)
(* symbol, string or bytes is a byte string, of a wide integer its words.   *)
(* A map is the set of its entries: their order is not modelled, so one     *)
(* entry more than once is one entry.  Where the Python code raises, the    *)
(* conversion's result is Raise(the exception).                             *)
(***************************************************************************)
EXTENDS Words, FiniteSetsExt

CONSTANTS
  ScVals,    \* the XDR values in play, closed under taking their parts
  NotUtf8    \* the byte strings among them that are not UTF-8

Plain == {"void", "bool", "i32", "u32", "i64", "u64"}
Texts == {"symbol", "string"}

\* The values a vec or a map is made of.
PartsOf(v) ==
  CASE v[1] = "vec" -> {v[2][i] : i \in DOMAIN v[2]}
    [] v[1] = "map" -> UNION {{e[1], e[2]} : e \in v[2]}
    [] OTHER -> {}

ValDepth[v \in ScVals] == 1 + Max({0} \cup {ValDepth[p] : p \in PartsOf(v)})

\* A value is a finite tree, with the content its type has in the XDR.
ASSUME ScValAssumption ==
  \A v \in ScVals :
    /\ v = <<v[1], v[2]>>
    /\ v[1] \in {"i128", "u128"} => v[2] \in Int \X UnsignedWord
    /\ v[1] \in {"i256", "u256"} =>
         v[2] \in Int \X UnsignedWord \X UnsignedWord \X UnsignedWord
    /\ v[1] = "address" => v[2] = <<v[2][1], v[2][2]>>
    /\ v[1] = "vec" => v[2] \in Seq(ScVals)
    /\ v[1] = "map" => v[2] \in SUBSET (ScVals \X ScVals)
    /\ ValDepth[v] \in Nat
    /\ \A p \in PartsOf(v) : p \in ScVals /\ ValDepth[p] < ValDepth[v]

Raise(exception) == <<"raises", exception>>
Raises(x) == x[1] = "raises"

\* A vec whose items were converted: the first one to raise decides ...
VecOf(s) ==
  LET bad == {i \in DOMAIN s : Raises(s[i])}
  IN  IF bad = {} THEN <<"vec", s>> ELSE s[Min(bad)]

\* ... and a map: in the first entry to raise the key goes before the value.
\* Which of several entries is the first is left open, as their order is.
MapOf(es) ==
  LET bad   == {e \in es : Raises(e[1]) \/ Raises(e[2])}
      first == CHOOSE e \in bad : TRUE
  IN  IF bad = {} THEN <<"map", es>>
      ELSE IF Raises(first[1]) THEN first[1] ELSE first[2]

\* bytes.hex, str.encode and their inverses.
Hex(b)      == <<"hex", b>>
FromHex(h)  == h[2]
Decoded(b)  == <<"text", b>>
Encoded(t)  == t[2]

-----------------------------------------------------------------------------
(* The client's arguments and ledger keys on their way into the node.       *)

\* A conversion is given with `part`, what it makes of the parts of a value.
ToJson(v, part) ==
  CASE v[1] \in Plain -> v
    [] v[1] \in {"i128", "u128"} -> <<v[1], Join2(v[2])>>
    [] v[1] \in {"i256", "u256"} -> <<v[1], Join4(v[2])>>
    [] v[1] \in Texts -> IF v[2] \in NotUtf8 THEN Raise("UnicodeDecodeError")
                         ELSE <<v[1], Decoded(v[2])>>
    [] v[1] = "bytes" -> <<"bytes", Hex(v[2])>>
    [] v[1] = "address" -> <<"address", <<v[2][1], Hex(v[2][2])>> >>
    [] v[1] = "vec" -> VecOf([i \in DOMAIN v[2] |-> part[v[2][i]]])
    [] v[1] = "map" ->
         MapOf({<<part[e[1]], part[e[2]]>> : e \in v[2]})
    [] OTHER -> Raise("NotImplementedError")

scval_to_json[v \in ScVals] == ToJson(v, scval_to_json)

Jsons == {j \in {scval_to_json[v] : v \in ScVals} : ~Raises(j)}

\* #decodeMapEntries joins the entries of a map, and is undefined when two have
\* one key; so is #decodeArg of all values that one is a part of.
HasTerm(j, part) ==
  /\ j[1] = "map" => \A d, e \in j[2] : d[1] = e[1] => d = e
  /\ \A p \in PartsOf(j) : part[p]

Defined[j \in Jsons] == HasTerm(j, Defined)

Decodable == {j \in Jsons : Defined[j]}

\* #decodeArg: numbers, booleans and texts become the constructor of their type.
Decode(j, part) ==
  CASE j[1] = "bytes" -> <<"bytes", FromHex(j[2])>>
    [] j[1] = "address" -> <<"address", <<j[2][1], FromHex(j[2][2])>> >>
    [] j[1] = "vec" -> <<"vec", [i \in DOMAIN j[2] |-> part[j[2][i]]]>>
    [] j[1] = "map" -> <<"map", {<<part[e[1]], part[e[2]]>> : e \in j[2]}>>
    [] OTHER -> j

decodeArg[j \in Decodable] == Decode(j, decodeArg)

KVals == {decodeArg[j] : j \in Decodable}

-----------------------------------------------------------------------------
(* Stored values on their way out.                                          *)

Unsupported == <<"unsupported">>

\* #scVal2JSON has no rule for I256.
Present(k, part) ==
  CASE k[1] = "i256" -> Unsupported
    [] k[1] = "bytes" -> <<"bytes", Hex(k[2])>>
    [] k[1] = "address" -> <<"address", <<k[2][1], Hex(k[2][2])>> >>
    [] k[1] = "vec" -> <<"vec", [i \in DOMAIN k[2] |-> part[k[2][i]]]>>
    [] k[1] = "map" -> <<"map", {<<part[e[1]], part[e[2]]>> : e \in k[2]}>>
    [] OTHER -> k

scVal2JSON[k \in KVals] == Present(k, scVal2JSON)

\* What it is given: stored values, and return values, which have the same form.
Readable == Jsons \cup {scVal2JSON[k] : k \in KVals}

FromJson(j, part) ==
  CASE j[1] \in Plain -> j
    [] j[1] \in {"i128", "u128"} -> <<j[1], Split2(j[2])>>
    [] j[1] \in {"i256", "u256"} -> <<j[1], Split4(j[2])>>
    [] j[1] \in Texts -> <<j[1], Encoded(j[2])>>
    [] j[1] = "bytes" -> <<"bytes", FromHex(j[2])>>
    [] j[1] = "address" -> <<"address", <<j[2][1], FromHex(j[2][2])>> >>
    [] j[1] = "vec" -> VecOf([i \in DOMAIN j[2] |-> part[j[2][i]]])
    [] j[1] = "map" ->
         MapOf({<<part[e[1]], part[e[2]]>> : e \in j[2]})
    [] OTHER -> Raise("NotImplementedError")

scval_from_json[j \in Readable] == FromJson(j, scval_from_json)

-----------------------------------------------------------------------------
\* A value with no JSON form: an i256, or one that contains it.
NoForm[v \in ScVals] == v[1] = "i256" \/ \E p \in PartsOf(v) : NoForm[p]
=============================================================================
