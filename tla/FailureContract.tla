--------------------------- MODULE FailureContract ---------------------------
(***************************************************************************)
(* What a client is told of a provider's failure: the public code of an    *)
(* answer, its HTTP status, and which code of several attempts is chosen   *)
(* (provider_public_contract.go).                                          *)
(*                                                                         *)
(* A response is its RC, its HTTP status, the tell-tale its texts hold     *)
(* ("" for none; at most one), and the public code it has already got.     *)
(***************************************************************************)
EXTENDS Naturals

Phase == {"inquiry", "initial_payment", "async"}

Conflict == {"DUPLICATE_TRANSACTION", "ALREADY_PAID", "INQUIRY_REQUIRED",
             "REQUEST_EXPIRED", "COOLDOWN_ACTIVE", "ORDER_CANCELED"}
Unprocessable == {"INVALID_CUSTOMER", "CUSTOMER_RESTRICTED", "INVALID_AMOUNT",
                  "INQUIRY_NOT_FOUND", "BILL_UNAVAILABLE", "LIMIT_EXCEEDED"}
Unavailable == {"PRODUCT_UNAVAILABLE", "PROVIDER_BALANCE_INSUFFICIENT",
                "PROVIDER_UNAVAILABLE", "NO_PROVIDER_AVAILABLE"}
BadGateway == {"UPSTREAM_REQUEST_INVALID", "UPSTREAM_AUTH_ERROR", "GENERAL_PROVIDER_ERROR"}
GatewayTimeout == {"PROVIDER_TIMEOUT"}
Code == Conflict \cup Unprocessable \cup Unavailable \cup BadGateway \cup GatewayTimeout

\* canonicalProviderFailures
HTTPStatus(code) ==
    CASE code \in Conflict -> 409
      [] code \in Unprocessable -> 422
      [] code \in Unavailable -> 503
      [] code \in GatewayTimeout -> 504
      [] OTHER -> 502

\* providerFailurePrecedence
Precedence ==
    [INVALID_CUSTOMER |-> 10, CUSTOMER_RESTRICTED |-> 11, INVALID_AMOUNT |-> 12,
     INQUIRY_NOT_FOUND |-> 13, BILL_UNAVAILABLE |-> 14, LIMIT_EXCEEDED |-> 15,
     ALREADY_PAID |-> 16, INQUIRY_REQUIRED |-> 17, DUPLICATE_TRANSACTION |-> 18,
     REQUEST_EXPIRED |-> 19, COOLDOWN_ACTIVE |-> 20, PRODUCT_UNAVAILABLE |-> 30,
     PROVIDER_BALANCE_INSUFFICIENT |-> 40, UPSTREAM_REQUEST_INVALID |-> 41,
     UPSTREAM_AUTH_ERROR |-> 42, PROVIDER_UNAVAILABLE |-> 43, PROVIDER_TIMEOUT |-> 44,
     GENERAL_PROVIDER_ERROR |-> 45, NO_PROVIDER_AVAILABLE |-> 99]

\* A missing key of a Go map reads as 0.
RankForgetsTimeout(code) ==     \* mutant: one more code is missing in the map
    IF code \in DOMAIN Precedence \ {"PROVIDER_TIMEOUT"} THEN Precedence[code] ELSE 0
Rank(code) == IF code \in DOMAIN Precedence THEN Precedence[code] ELSE 0

-----------------------------------------------------------------------------
(***************************************************************************)
(* The tables: the RCs that mean a code.                                   *)
(***************************************************************************)

\* GetCanonicalProviderFailure answers this for what it does not know.
Default == "GENERAL_PROVIDER_ERROR"
Lookup(table, rc) ==
    IF \E code \in DOMAIN table : rc \in table[code]
    THEN CHOOSE code \in DOMAIN table : rc \in table[code] ELSE Default

AlterraTable ==
    [INVALID_CUSTOMER |-> {"20"}, PRODUCT_UNAVAILABLE |-> {"21"},
     DUPLICATE_TRANSACTION |-> {"22"}, PROVIDER_TIMEOUT |-> {"23"},
     PROVIDER_UNAVAILABLE |-> {"24"}, LIMIT_EXCEEDED |-> {"25", "26"},
     ALREADY_PAID |-> {"50"}, INQUIRY_NOT_FOUND |-> {"51"},
     ORDER_CANCELED |-> {"98"}, GENERAL_PROVIDER_ERROR |-> {"99"}]

\* What both phases of Kiosbank agree on.
KiosbankCommon ==
    [BILL_UNAVAILABLE |-> {"60", "62", "80"}, ALREADY_PAID |-> {"64", "74"},
     INVALID_CUSTOMER |-> {"65", "78"}, CUSTOMER_RESTRICTED |-> {"68", "69", "83"},
     INVALID_AMOUNT |-> {"70"}, LIMIT_EXCEEDED |-> {"72", "79"}, INQUIRY_REQUIRED |-> {"61"},
     REQUEST_EXPIRED |-> {"46"}, COOLDOWN_ACTIVE |-> {"75"},
     UPSTREAM_REQUEST_INVALID |-> {"02", "15", "37", "40", "42"},
     PROVIDER_BALANCE_INSUFFICIENT |-> {"12"}]
KiosbankInquiry ==
    [PROVIDER_TIMEOUT |-> {"04", "39"}, INQUIRY_NOT_FOUND |-> {"19"},
     PROVIDER_UNAVAILABLE |-> {"05", "14", "18", "38", "85"}]
KiosbankPayment ==
    [PROVIDER_UNAVAILABLE |-> {"18", "85"}, PRODUCT_UNAVAILABLE |-> {"41"},
     DUPLICATE_TRANSACTION |-> {"86"}]

Either(rc, first, second) ==
    IF Lookup(first, rc) # Default THEN Lookup(first, rc) ELSE Lookup(second, rc)

\* canonicalGenericFailure: looksLikeTransportTimeout, looksLikeTransportFailure
Transport(resp, otherwise) ==
    CASE resp.text = "timeout" -> "PROVIDER_TIMEOUT"
      [] resp.text = "transport error" -> "PROVIDER_UNAVAILABLE"
      [] OTHER -> otherwise

\* canonicalAlterraFailure; "4xx" is an RC of no table that begins with a 4.
Alterra(resp) ==
    IF \E code \in DOMAIN AlterraTable : resp.rc \in AlterraTable[code]
    THEN Lookup(AlterraTable, resp.rc)
    ELSE IF resp.text = "product closed" \/ resp.http = 450 THEN "PRODUCT_UNAVAILABLE"
    ELSE IF resp.text = "insufficient deposit" THEN "PROVIDER_BALANCE_INSUFFICIENT"
    ELSE IF resp.text = "duplicate order id" \/ resp.http = 422 THEN "DUPLICATE_TRANSACTION"
    ELSE IF \/ resp.http \in {400, 406}
            \/ resp.http = 403 /\ resp.text = "invalid product" THEN "UPSTREAM_REQUEST_INVALID"
    ELSE IF resp.http \in {401, 403} THEN "UPSTREAM_AUTH_ERROR"
    ELSE IF resp.http = 504 THEN "PROVIDER_TIMEOUT"
    ELSE Transport(resp, IF resp.rc = "4xx" THEN "UPSTREAM_REQUEST_INVALID" ELSE Default)

\* canonicalKiosbankFailure
Kiosbank(phase, resp) ==
    Transport(resp,
        CASE phase = "inquiry" -> Either(resp.rc, KiosbankInquiry, KiosbankCommon)
          [] phase = "async" -> IF resp.rc = "17" THEN Default ELSE "PROVIDER_UNAVAILABLE"
          [] OTHER -> Either(resp.rc, KiosbankPayment, KiosbankCommon))

\* CanonicalFailureForResponse
PublicCode(provider, phase, resp) ==
    IF resp.public # "" THEN resp.public
    ELSE CASE provider = "alterra" -> Alterra(resp)
           [] provider = "kiosbank" -> Kiosbank(phase, resp)
           [] OTHER -> Transport(resp, Default)

\* providerResponseFromError: a call without an answer.  Only for Kiosbank,
\* outside an inquiry, the code is left to the texts and to the RC, which is
\* the first number of two or three digits in the text of the error.
FromError(provider, phase, text, number) ==
    [rc |-> number, http |-> 0, text |-> text,
     public |-> IF provider = "kiosbank" /\ phase # "inquiry" THEN ""
                ELSE IF text = "timeout" THEN "PROVIDER_TIMEOUT" ELSE "PROVIDER_UNAVAILABLE"]

-----------------------------------------------------------------------------
(***************************************************************************)
(* BuildFinalFailureResponseFromAttempts goes through the attempts in      *)
(* order and keeps the first, and then what outranks what it has.          *)
(***************************************************************************)
NoCode == "none"
Better(best, code) == IF best = NoCode \/ Rank(code) < Rank(best) THEN code ELSE best
Chosen(best) == IF best = NoCode THEN "NO_PROVIDER_AVAILABLE" ELSE best

\* The client can do something about it: another number, another amount, the
\* inquiry first, or nothing because it is done.
ClientError == {code \in Code : HTTPStatus(code) < 500}

-----------------------------------------------------------------------------
\* Each RC means one code, and every answer gets one of the codes of the contract.
ASSUME TablesAreFunctions ==
    \A table \in {AlterraTable, KiosbankCommon, KiosbankInquiry, KiosbankPayment} :
        /\ DOMAIN table \subseteq Code
        /\ \A c, d \in DOMAIN table : c # d => table[c] \cap table[d] = {}
=============================================================================
