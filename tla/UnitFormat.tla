----------------------------- MODULE UnitFormat -----------------------------
(***************************************************************************)
(* The forms a unit takes: the object in memory, the JSON document that is *)
(* hashed, signed and broadcast, the row of the table and the document     *)
(* made of a row; and the seals on a unit, its proof of work and its       *)
(* signature.                                                              *)
(*                                                                         *)
(* A field holds the name of the unit that it belongs to, for what its     *)
(* maker put there, or Null (empty, zero, the default) or Unset (never     *)
(* initialised).  A digest is kept as the document it was made of, in a    *)
(* sequence that is empty where the string is.                             *)
(***************************************************************************)
EXTENDS Sequences, Functions

CONSTANTS Null, Unset

Header == {"version", "hash", "tip0", "tip1", "signature", "timestamp",
           "nonce", "difficulty", "selfWeight"}
Tx == {"payer", "value", "payee", "message", "tx_timestamp"}
Field == Header \cup Tx

(* A unit of units that has its transaction and its tips, but no seal yet. *)
Fresh(u) ==
    [f \in Field |-> CASE f \in {"hash", "signature"} -> << >>
                       [] f \in {"nonce", "timestamp"} -> Null
                       [] OTHER -> u]

DefaultUnit == [f \in Field |-> IF f \in {"hash", "signature"} THEN << >> ELSE Null]

----------------------------------------------------------------------------
(* to_json leaves the version out; Unit(json) reads nothing unless all of  *)
(* the header is there, and its transaction keeps no time: the local       *)
(* timestamp_ of Transaction(json) hides the member.                       *)
to_json(unit) == Restrict(unit, Field \ {"version"})

Unit(json, u) ==
    IF Header \ {"version"} \subseteq DOMAIN json
    THEN [f \in Field |-> CASE f = "version" -> u
                            [] f = "tx_timestamp" -> Unset
                            [] OTHER -> json[f]]
    ELSE DefaultUnit

(* The row has no transaction time either.  The document made of a row has *)
(* its own keys, two of which are spelt in another way, and counts the     *)
(* tips from one.                                                          *)
Column == Field \ {"tx_timestamp"}

Row(unit) == Restrict(unit, Column)

Key(f) ==
    CASE f = "timestamp" -> "time_stamp"
      [] f = "selfWeight" -> "self_weight"
      [] f = "tip0" -> "tip1"
      [] f = "tip1" -> "tip2"
      [] OTHER -> f

row_to_json(row) ==
    LET keys == {Key(f) : f \in Column}
    IN  [k \in keys |-> row[CHOOSE f \in Column : Key(f) = k]]

KeyOfUnit(f) == f
KeyRead(f) == Key(f)

(* A key that is not there reads as null.                                  *)
json_to_row(json) ==
    [f \in Column |-> IF KeyRead(f) \in DOMAIN json THEN json[KeyRead(f)]
                      ELSE DefaultUnit[f]]

----------------------------------------------------------------------------
(* The hash that meets the target is made of the document with neither     *)
(* hash nor signature, the signature of the document with the hash.        *)
PoW(unit, u) ==
    LET tried == [unit EXCEPT !["nonce"] = u, !["timestamp"] = u]
    IN  [tried EXCEPT !["hash"] = <<to_json(tried)>>]

sinature(unit) == [unit EXCEPT !["signature"] = <<to_json(unit)>>]

SealedInverse(u) == PoW(sinature(Fresh(u)), u)
Sealed(u) == sinature(PoW(Fresh(u), u))

(* The genesis unit is hashed before its transaction is set, and what it   *)
(* has in the place of a signature is a string of zeros.                   *)
genesis(u) ==
    LET bare == [f \in Field |->
                    CASE f = "hash" -> << >>
                      [] f = "signature" -> <<Null>>
                      [] f = "tx_timestamp" -> Unset
                      [] f \in Tx \cup {"nonce", "difficulty", "selfWeight"} -> Null
                      [] OTHER -> u]
    IN  [f \in Field |-> CASE f \in Tx -> u
                           [] f = "hash" -> <<to_json(bare)>>
                           [] OTHER -> bare[f]]

verifySignature(json) ==
    json["signature"] = <<[json EXCEPT !["signature"] = << >>]>>

verifyPoW(json) ==
    json["hash"] = <<[json EXCEPT !["signature"] = << >>, !["hash"] = << >>]>>

Verifies(json) == verifySignature(json) /\ verifyPoW(json)
=============================================================================
