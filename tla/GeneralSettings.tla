--------------------------- MODULE GeneralSettings ---------------------------
(***************************************************************************)
(* The general settings: config/general.ts, what the deployment script     *)
(* configureGeneralSettings writes from it, and what the script            *)
(* updateGeneralConfig later compares and rewrites.                        *)
(*                                                                         *)
(* A setting is [type, key, value]; the one the source leaves undefined    *)
(* has the value Undefined.  Gas amounts and times are the one nonzero     *)
(* value Amount.                                                           *)
(***************************************************************************)
EXTENDS MarketConfigs, DataStoreKeys

Undefined == <<>>
Setting(type, key, value) == [type |-> type, key |-> key, value |-> value]

\* What the script reads of a record: undefined for a field it does not have.
Field(record, f) == IF f \in DOMAIN record THEN record[f] ELSE Undefined

GasLimitFields ==
    {"depositGasLimitSingle", "depositGasLimitMultiple", "withdrawalGasLimit", "singleSwapGasLimit",
     "increaseOrderGasLimit", "decreaseOrderGasLimit", "swapOrderGasLimit", "estimatedGasFeeBaseAmount",
     "estimatedGasFeeMultiplierFactor", "executionGasFeeBaseAmount", "executionGasFeeMultiplierFactor"}
AmountFields ==
    {"minHandleExecutionErrorGas", "minHandleExecutionErrorGasToForward", "minAdditionalGasForExecution",
     "tokenTransferGasLimit", "nativeTokenTransferGasLimit", "maxSwapPathLength", "maxCallbackGasLimit",
     "minCollateralUsd", "minPositionSizeUsd", "claimableCollateralTimeDivisor"}
ReceiverFactorFields == {"positionFeeReceiverFactor", "swapFeeReceiverFactor", "borrowingFeeReceiverFactor"}

hardhatGeneral ==
    [f \in GasLimitFields \union ReceiverFactorFields |-> NumberZero] @@ [f \in AmountFields |-> Amount]
    @@ [feeReceiver |-> "AddressZero", holdingAddress |-> "AddressZero", maxUiFeeFactor |-> Float(5, 5),
        skipBorrowingFeeForSmallerSide |-> FALSE]

generalConfig ==
    [f \in GasLimitFields \union AmountFields |-> Amount] @@ [f \in ReceiverFactorFields |-> Float(37, 2)]
    @@ [feeReceiver |-> "0x7517", holdingAddress |-> "0x99d1", maxUiFeeFactor |-> Float(2, 4),
        skipBorrowingFeeForSmallerSide |-> TRUE]

ConfiguredNetworks == {"arbitrumGoerli", "avalancheFuji", "arbitrum", "avalanche", "seiTestnet", "seiMainnet"}

\* gmx.getGeneral() throws for any other network, localhost included.
GeneralDefined(network) == network \in ConfiguredNetworks \union {"hardhat"}
getGeneral(network) ==
    IF network = "hardhat" THEN hardhatGeneral ELSE [requestExpirationBlockAge |-> Amount] @@ generalConfig

-----------------------------------------------------------------------------
AddressAndFlagSettings(g) ==
    <<Setting("address", <<"FEE_RECEIVER">>, Field(g, "feeReceiver")),
      Setting("address", <<"HOLDING_ADDRESS">>, Field(g, "holdingAddress")),
      Setting("bool", <<"SKIP_BORROWING_FEE_FOR_SMALLER_SIDE">>, Field(g, "skipBorrowingFeeForSmallerSide"))>>

UintSettings(g) ==
    LET uint(key, f) == Setting("uint", key, Field(g, f))
    IN <<uint(<<"MAX_UI_FEE_FACTOR">>, "maxUiFeeFactor"),
         uint(<<"MIN_HANDLE_EXECUTION_ERROR_GAS">>, "minHandleExecutionErrorGas"),
         uint(<<"MIN_HANDLE_EXECUTION_ERROR_GAS_TO_FORWARD">>, "minHandleExecutionErrorGasToForward"),
         uint(<<"MIN_ADDITIONAL_GAS_FOR_EXECUTION">>, "minAdditionalGasForExecution"),
         uint(<<"MAX_CALLBACK_GAS_LIMIT">>, "maxCallbackGasLimit"),
         uint(<<"MAX_SWAP_PATH_LENGTH">>, "maxSwapPathLength"),
         uint(<<"MIN_COLLATERAL_USD">>, "minCollateralUsd"),
         uint(<<"MIN_POSITION_SIZE_USD">>, "minPositionSizeUsd"),
         uint(<<"SWAP_FEE_RECEIVER_FACTOR">>, "swapFeeReceiverFactor"),
         uint(<<"POSITION_FEE_RECEIVER_FACTOR">>, "positionFeeReceiverFactor"),
         uint(<<"BORROWING_FEE_RECEIVER_FACTOR">>, "borrowingFeeReceiverFactor"),
         uint(<<"CLAIMABLE_COLLATERAL_TIME_DIVISOR">>, "claimableCollateralTimeDivisor"),
         uint(depositGasLimitKey(TRUE), "depositGasLimitSingle"),
         uint(depositGasLimitKey(FALSE), "depositGasLimitMultiple"),
         uint(withdrawalGasLimitKey, "withdrawalGasLimit"),
         uint(singleSwapGasLimitKey, "singleSwapGasLimit"),
         uint(increaseOrderGasLimitKey, "increaseOrderGasLimit"),
         uint(decreaseOrderGasLimitKey, "decreaseOrderGasLimit"),
         uint(swapOrderGasLimitKey, "swapOrderGasLimit"),
         uint(<<"NATIVE_TOKEN_TRANSFER_GAS_LIMIT">>, "nativeTokenTransferGasLimit"),
         uint(<<"ESTIMATED_GAS_FEE_BASE_AMOUNT">>, "estimatedGasFeeBaseAmount"),
         uint(<<"ESTIMATED_GAS_FEE_MULTIPLIER_FACTOR">>, "estimatedGasFeeMultiplierFactor"),
         uint(<<"EXECUTION_GAS_FEE_BASE_AMOUNT">>, "executionGasFeeBaseAmount"),
         uint(<<"EXECUTION_GAS_FEE_MULTIPLIER_FACTOR">>, "executionGasFeeMultiplierFactor")>>

\* configureGeneralSettings: the addresses come first, the flag and the optional age last.
configureGeneralSettings(network) ==
    LET g == getGeneral(network)
        first == AddressAndFlagSettings(g)
    IN SubSeq(first, 1, 2) \o UintSettings(g) \o <<first[3]>>
       \o (IF "requestExpirationBlockAge" \in DOMAIN g
           THEN <<Setting("uint", <<"REQUEST_EXPIRATION_BLOCK_AGE">>, g.requestExpirationBlockAge)>>
           ELSE <<>>)

\* processGeneralConfig: what updateGeneralConfig compares, each by its base key and its encoded arguments.
processGeneralConfig(network) ==
    LET g == getGeneral(network)
        uint(baseKey, keyData, f) == Setting("uint", getFullKey(baseKey, keyData), Field(g, f))
    IN <<uint(<<"MAX_UI_FEE_FACTOR">>, <<>>, "maxUiFeeFactor"),
         uint(<<"MIN_HANDLE_EXECUTION_ERROR_GAS">>, <<>>, "minHandleExecutionErrorGas"),
         uint(<<"MIN_HANDLE_EXECUTION_ERROR_GAS_TO_FORWARD">>, <<>>, "minHandleExecutionErrorGasToForward"),
         uint(<<"MIN_ADDITIONAL_GAS_FOR_EXECUTION">>, <<>>, "minAdditionalGasForExecution"),
         uint(<<"MAX_CALLBACK_GAS_LIMIT">>, <<>>, "maxCallbackGasLimit"),
         uint(<<"MAX_SWAP_PATH_LENGTH">>, <<>>, "maxSwapPathLength"),
         uint(<<"MIN_COLLATERAL_USD">>, <<>>, "minCollateralUsd"),
         uint(<<"MIN_POSITION_SIZE_USD">>, <<>>, "minPositionSizeUsd"),
         uint(<<"SWAP_FEE_RECEIVER_FACTOR">>, <<>>, "swapFeeReceiverFactor"),
         uint(<<"POSITION_FEE_RECEIVER_FACTOR">>, <<>>, "positionFeeReceiverFactor"),
         uint(<<"DEPOSIT_GAS_LIMIT">>, <<TRUE>>, "depositGasLimitSingle"),
         uint(<<"DEPOSIT_GAS_LIMIT">>, <<FALSE>>, "depositGasLimitMultiple"),
         uint(withdrawalGasLimitKey, <<>>, "withdrawalGasLimit"),
         uint(singleSwapGasLimitKey, <<>>, "singleSwapGasLimit"),
         uint(increaseOrderGasLimitKey, <<>>, "increaseOrderGasLimit"),
         uint(decreaseOrderGasLimitKey, <<>>, "decreaseOrderGasLimit"),
         uint(swapOrderGasLimitKey, <<>>, "swapOrderGasLimit"),
         uint(<<"NATIVE_TOKEN_TRANSFER_GAS_LIMIT">>, <<>>, "nativeTokenTransferGasLimit"),
         uint(<<"ESTIMATED_GAS_FEE_BASE_AMOUNT">>, <<>>, "estimatedGasFeeBaseAmount"),
         uint(<<"ESTIMATED_GAS_FEE_MULTIPLIER_FACTOR">>, <<>>, "estimatedGasFeeMultiplierFactor"),
         uint(<<"EXECUTION_GAS_FEE_BASE_AMOUNT">>, <<>>, "executionGasFeeBaseAmount"),
         uint(<<"EXECUTION_GAS_FEE_MULTIPLIER_FACTOR">>, <<>>, "executionGasFeeMultiplierFactor"),
         uint(<<"REQUEST_EXPIRATION_BLOCK_AGE">>, <<>>, "requestExpirationBlockAge")>>

=============================================================================
