SPECIFICATION Spec
INVARIANT TypeOK
INVARIANT StateNamesTheRest
INVARIANT TablesAgree
PROPERTY RejectAbsorbs
PROPERTY ImplementsRuneScan
CONSTANT Bytes <- EdgeBytes
