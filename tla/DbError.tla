------------------------------ MODULE DbError ------------------------------
(***************************************************************************)
(* What the proxy makes of a failed call (src/dataapi.rs).  The Data API   *)
(* sends a server's error as one string; here it is the sequence of its    *)
(* parts between semicolons, each with the label it starts with, if any.   *)
(* The message comes first and may have semicolons of its own.             *)
(***************************************************************************)
EXTENDS Naturals, SequencesExt, FiniteSetsExt

Labels == {"SQLState", "Position", "Hint", "Detail", "Where"}

\* The label of a part that has none.
NoLabel == ""

\* What ErrorInfo holds; an option is a sequence of at most one text.
ErrorInfo(code, message) ==
    [code |-> code, message |-> message,
     fields |-> [label \in Labels \ {"SQLState"} |-> <<>>]]

\* Splitting the parts from the left: the message ends with its first part.
ParseDbError_Mutant(parts) ==
    LET of(label) == {i \in 2..Len(parts) : parts[i].label = label}
        field(label) == IF of(label) = {} THEN <<>> ELSE <<parts[Min(of(label))].text>>
        code == field("SQLState")
    IN [code    |-> IF code = <<>> THEN "XX000" ELSE code[1],
        message |-> SubSeq(parts, 1, 1),
        fields  |-> [label \in Labels \ {"SQLState"} |-> field(label)]]

\* parse_db_error.  Labelled parts are peeled off from the right as far as
\* they go, and of two with the same label the left one stays; the rest is the
\* message.
ParseDbError(parts) ==
    LET head == Max({1} \cup {i \in DOMAIN parts : parts[i].label \notin Labels})
        of(label) == {i \in (head + 1)..Len(parts) : parts[i].label = label}
        field(label) == IF of(label) = {} THEN <<>> ELSE <<parts[Min(of(label))].text>>
        code == field("SQLState")
    IN [code    |-> IF code = <<>> THEN "XX000" ELSE code[1],
        message |-> SubSeq(parts, 1, head),
        fields  |-> [label \in Labels \ {"SQLState"} |-> field(label)]]

\* map_sdk_error's SQLSTATEs.  An exception that is not listed is an internal
\* error; UnsupportedResultException is two, by its message.
SqlStates ==
    [ResultTooLarge                 |-> "54000",
     UnsupportedResultException     |-> "0A000",
     Multistatement                 |-> "0A000",
     StatementTimeoutException      |-> "57014",
     DatabaseResumingException      |-> "57P03",
     HttpEndpointNotEnabledException |-> "08006",
     DatabaseNotFoundException      |-> "3D000",
     AccessDeniedException          |-> "28000",
     ForbiddenException             |-> "28000",
     SecretsErrorException          |-> "28000",
     InvalidSecretException         |-> "28000",
     TransactionNotFoundException   |-> "25P01",
     DatabaseUnavailableException   |-> "57P03",
     ServiceUnavailableError        |-> "57P03",
     BadRequestException            |-> "42601",
     InternalFailure                |-> "XX000",
     InternalServerErrorException   |-> "XX000"]

UnsupportedType == "unsupported data type"
SomethingElse   == "something else"

\* What a message says of itself, as far as anything looks at it.
Says(exception) ==
    CASE exception = "UnsupportedResultException" -> UnsupportedType
      [] exception \in {"InternalFailure", "InternalServerErrorException"} -> "InternalFailure"
      [] OTHER -> SomethingElse

MapSdkError(failure) ==
    IF failure.exception = "DatabaseErrorException" THEN ParseDbError(failure.parts)
    ELSE ErrorInfo(IF failure.exception \in DOMAIN SqlStates THEN SqlStates[failure.exception]
                   ELSE "XX000",
                   <<[label |-> NoLabel, text |-> Says(failure.exception)]>>)

MessageContains(error, text) == \E i \in DOMAIN error.message : error.message[i].text = text

\* is_unreturnable_type and is_internal_failure, on the error so mapped.
IsUnreturnableType(error) ==
    error.code = "0A000" /\ MessageContains(error, UnsupportedType)
IsInternalFailure(error) ==
    error.code = "XX000" /\ MessageContains(error, "InternalFailure")

=============================================================================
