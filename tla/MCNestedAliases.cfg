SPECIFICATION Spec
CONSTANTS
    Order <- Aliases
    IndexOf <- MCIndexOf
    maxListIndex = 1
    MaxKeys = 5
PROPERTIES
    NothingOverwritten
