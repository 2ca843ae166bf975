------------------------------ MODULE MCFuture ------------------------------
EXTENDS Future

Err(type, fields) ==
    [Type |-> type, File |-> "f.c", Line |-> 1, Message |-> "m", Errno |-> 0, Errcode |-> 3,
     Fields |-> fields]
Stack == <<Err("ClientError", <<"name">>), Err("SystemError", <<>>)>>

Good == Some(<<Pair("Data", Some([array |-> TRUE, items |-> <<1>>]))>>)
Scalar == Some(<<Pair("Data", Some([array |-> FALSE, items |-> <<1>>]))>>)
Failure == Some(<<Pair("Error24", Some("m")), Pair("Error", Some(EncodeBoxError(Stack)))>>)

Columns(kind) == Some(<<Pair("Data", Some([array |-> TRUE, items |-> <<1>>])),
                        Pair("MetaData", Some(<<<<Pair("FieldName", Some(kind))>>>>))>>)

MCStacks == {Stack}
MCPushBodies == {Good, Scalar}
MCAnswers ==
    {<<OkCode, Good>>, <<ErrorCodeBit + 3, Failure>>, <<ErrorCodeBit + 3, Some(<<>>)>>,
     <<ErrorCodeBit + 128, Failure>>, <<OkCode, Some(<<Pair("Pos", Absent)>>)>>,
     <<OkCode, Some(<<Pair("MetaData", Some(<<>>)), Pair("SQLInfo", Some(<<>>))>>)>>,
     <<OkCode, Columns("string")>>, <<OkCode, Columns("other")>>,
     <<OkCode, Some(<<Pair("stmtID", Some(7)), Pair("bindCount", Some(2))>>)>>}
=============================================================================
