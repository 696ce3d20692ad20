---------------------------- MODULE LogonMessage ----------------------------
(* The logon message and the hooks on it: the Steam client asks a            *)
(* CMsgClientLogon for its size, allocates that much, and has the message    *)
(* written.  The hooks of condenstation.c fix the message up, and add the    *)
(* access token as field 108, once to the size and once to what is written.  *)
(* Sizes are in bytes.  The account behind the message is LogonFlow's.       *)
EXTENDS Integers

CONSTANTS
  TokenLengths,   \* strlen(SteamAccessToken), below 1024
  FieldSize       \* the size of each field when it is enabled

Enabled == {"psn_ticket", "psn_service", "remember_password", "account_name"}

ASSUME TokenLengthsAssumption == TokenLengths \subseteq 0 .. 1023
ASSUME FieldSizeAssumption == FieldSize \in [Enabled \cup {"others"} -> Nat]

VARIABLES
  message,        \* "none", "new", "sized" or "sent"
  enabled_fields,
  token,          \* strlen(SteamAccessToken)
  length,         \* what ByteSize answered, the cached size
  bytes           \* what SerializeWithCachedSizes wrote

messageVars == <<message, enabled_fields, token, length, bytes>>

InitMessage ==
  /\ message = "none"
  /\ enabled_fields = {}
  /\ token = 0 /\ length = 0 /\ bytes = 0

\* The length of a varint; CodedOutputStream::VarintSize32Fallback from 0x80 on.
VarintSize(n) == IF n < 128 THEN 1 ELSE IF n < 16384 THEN 2 ELSE 3

\* WireFormatLite::WriteString: tag, length, characters.
StringSize(field, n) == VarintSize(field * 8 + 2) + VarintSize(n) + n

\* The generated methods of the Steam client: both handle the enabled fields.
Size(fields) ==
  FieldSize["others"]
    + (IF "psn_ticket" \in fields THEN FieldSize["psn_ticket"] ELSE 0)
    + (IF "psn_service" \in fields THEN FieldSize["psn_service"] ELSE 0)
    + (IF "remember_password" \in fields THEN FieldSize["remember_password"] ELSE 0)
    + (IF "account_name" \in fields THEN FieldSize["account_name"] ELSE 0)

\* fix_up_CMsgClientLogon: no PSN ticket, and a name if there is none yet.  In
\* the newer message the test reads another field, and the name is set again.
FixUp(fields) ==
  (fields \ {"psn_ticket", "psn_service"}) \cup {"remember_password", "account_name"}

\* A fault: the length of the token is always taken to fit one byte.
ByteSizeShortPrefix(hooked) ==
  /\ message = "new"
  /\ message' = "sized"
  /\ enabled_fields' = IF hooked THEN FixUp(enabled_fields) ELSE enabled_fields
  /\ length' = Size(enabled_fields') + (IF hooked THEN 1 + token + 2 ELSE 0)
  /\ UNCHANGED <<token, bytes>>

\* CMsgClientLogon_ByteSize_Hook, or the original.
ByteSize(hooked) ==
  /\ message = "new"
  /\ message' = "sized"
  /\ enabled_fields' = IF hooked THEN FixUp(enabled_fields) ELSE enabled_fields
  /\ LET prefix == IF token >= 128 THEN VarintSize(token) ELSE 1
     IN  length' = Size(enabled_fields') + (IF hooked THEN prefix + token + 2 ELSE 0)
  /\ UNCHANGED <<token, bytes>>

\* CMsgClientLogon_SerializeWithCachedSizes_Hook, or the original.
Serialize(hooked) ==
  /\ message = "sized"
  /\ message' = "sent"
  /\ enabled_fields' = IF hooked THEN FixUp(enabled_fields) ELSE enabled_fields
  /\ bytes' = Size(enabled_fields') + (IF hooked THEN StringSize(108, token) ELSE 0)
  /\ UNCHANGED <<token, length>>

\* A logon: the Steam client fills a message in, with a PSN ticket and perhaps
\* with a name of its own.
NewMessage ==
  /\ message = "none"
  /\ message' = "new"
  /\ enabled_fields' \in {{"psn_ticket", "psn_service"},
                         {"psn_ticket", "psn_service", "account_name"}}
  /\ token' \in TokenLengths
  /\ UNCHANGED <<length, bytes>>
=============================================================================
